---------------------------- MODULE Spec2Model ----------------------------
(***************************************************************************)
(* SEM campaign generator: keyword scoring pipeline (DataProcessor), the   *)
(* campaign allocator (CampaignBuilder), configuration validation and the  *)
(* keyword synthesizer's use of the process-wide random generator.         *)
(*                                                                         *)
(* Number representation.  Money per click (CPC) is kept in hundredths of  *)
(* a currency unit (0.25 is 25).  Sub-scores are kept in tenths (9.0 is    *)
(* 90), weights in hundredths (0.25 is 25), so a weighted sum is in        *)
(* thousandths and composite_score, rounded to 2 decimals, in hundredths.  *)
(* Budgets are whole currency units; budget weights are in tenths.         *)
(*                                                                         *)
(* Keyword text is a sequence of lower-case words (the words of the        *)
(* keyword separated by single spaces).                                    *)
(***************************************************************************)
EXTENDS Integers, Sequences, FiniteSets, TLC

VARIABLES
    config,        \* the configuration dictionary handed to every component
    raw,           \* the raw keyword table passed to process_keywords
    pc,            \* position inside process_keywords / the builder calls
    df,            \* the table being transformed by process_keywords
    columns,       \* the column names of df
    df_filtered,   \* the table returned by the first _apply_filters call
    passes,        \* number of further _apply_filters calls on that table
    error,         \* "none", or the exception process_keywords raised
    match_type_strategy,  \* CampaignBuilder.match_type_strategy
    search,        \* outcome of build_search_campaigns
    pmax,          \* outcome of build_pmax_campaigns
    shopping,      \* outcome of build_shopping_campaigns
    yaml_keys,     \* the key paths of the configuration file main is run on
    present,       \* the key paths of the config dictionary inside main
    invalid,       \* key paths whose value is not a number in the valid range
    stage,         \* the statement of main that runs next
    failure,       \* the exception that ended main and the stage raising it
    scored,        \* the kind of table process_keywords returned to main
    rng,           \* state of numpy's process-wide random generator
    generators,    \* the configs of the KeywordGenerator instances constructed
    tables,        \* the generate_keywords calls made so far, with their results
    other_draws    \* draws other code made from the process-wide generator

PipelineVars == <<config, raw, pc, df, columns, df_filtered, passes, error,
                  match_type_strategy, search, pmax, shopping>>

MainVars == <<yaml_keys, present, invalid, stage, failure, scored>>

GeneratorVars == <<rng, generators, tables, other_draws>>

vars == <<PipelineVars, MainVars, GeneratorVars>>

-----------------------------------------------------------------------------
(* Bounds of the model *)

MaxRows == 3

MaxPasses == 2

\* budgets range over 0..MaxBudget whole units
MaxBudget == 60

\* number of keys left out of the configuration file
MaxMissing == 1

\* number of budget and constraint values that are not valid numbers
MaxInvalid == 1

\* KeywordGenerator instances constructed in one process
MaxGenerators == 2

\* generate_keywords calls made in one process
MaxCalls == 2

\* draws other code makes from the process-wide random generator
MaxOtherDraws == 1

-----------------------------------------------------------------------------
(* Arithmetic helpers *)

\* round(): numpy / Python round a non-negative n/d to the nearest integer,
\* an exact half going to the even neighbour
RoundHalfEven(n, d) ==
    LET q == n \div d
        r == n % d
    IN  IF 2 * r < d THEN q
        ELSE IF 2 * r > d THEN q + 1
        ELSE IF q % 2 = 0 THEN q ELSE q + 1

\* round() of the float computed for n/d where the code divides and
\* multiplies floats: the nearest integer, and when n/d is an exact half
\* either neighbour, since the float may fall on either side of the half
RoundChoices(n, d) ==
    LET q == n \div d
    IN  IF 2 * (n % d) = d THEN {q, q + 1} ELSE {RoundHalfEven(n, d)}

RECURSIVE SumSeq(_)
SumSeq(s) == IF s = <<>> THEN 0 ELSE Head(s) + SumSeq(Tail(s))

Range(s) == {s[i] : i \in 1..Len(s)}

-----------------------------------------------------------------------------
(* Keyword text *)

\* term-in-word facts of the vocabulary: <<t, w>> when the term t occurs
\* inside the longer word w (Python's `t in w`)
SubstringPairs ==
    { <<"review", "reviews">>, <<"work", "workout">>,
      <<"supplement", "supplements">>, <<"health", "healthy">>,
      <<"post", "postworkout">>, <<"work", "postworkout">>,
      <<"workout", "postworkout">> }

\* Python `term in keyword_lower` for a one-word term: a substring test, so
\* the term may sit inside a longer word
Contains(kw, term) ==
    \E i \in 1..Len(kw) : kw[i] = term \/ <<term, kw[i]>> \in SubstringPairs

ContainsAny(kw, terms) == \E t \in terms : Contains(kw, t)

\* Python `"a b" in keyword_lower` for a two-word term (no word of the
\* vocabulary ends in a or starts with b other than a and b themselves)
ContainsPhrase(kw, a, b) ==
    \E i \in 1..(Len(kw) - 1) : kw[i] = a /\ kw[i + 1] = b

\* regex \b(t1|t2|...)\b: one of the terms stands as a whole word
HasWord(kw, terms) == \E i \in 1..Len(kw) : kw[i] \in terms

\* regex \b(a b)\b
HasPhrase(kw, a, b) ==
    \E i \in 1..(Len(kw) - 1) : kw[i] = a /\ kw[i + 1] = b

\* str.lower() of one word: the words of the vocabulary written with capital
\* letters, and their lower-case forms; every other word is lower case
LowerWord(w) ==
    CASE w = "Buy" -> "buy"
      [] w = "NutriMax" -> "nutrimax"
      [] w = "Mumbai" -> "mumbai"
      [] OTHER -> w

\* keyword.lower()
Lower(kw) == [i \in 1..Len(kw) |-> LowerWord(kw[i])]

\* keyword.strip(): a keyword is the sequence of its pieces between single
\* spaces, so a run of spaces shows as empty pieces; strip removes the empty
\* pieces at both ends
RECURSIVE Strip(_)
Strip(kw) ==
    IF kw = <<>> THEN <<>>
    ELSE IF Head(kw) = "" THEN Strip(Tail(kw))
    ELSE IF kw[Len(kw)] = "" THEN Strip(SubSeq(kw, 1, Len(kw) - 1))
    ELSE kw

-----------------------------------------------------------------------------
(* DataProcessor *)

brand_name(cfg) == cfg.brand.name

competitor_name(cfg) == cfg.competitor.name

\* the five irrelevance classes of _filter_relevance, joined with |
IrrelevantTerms ==
    { "free", "download", "torrent", "crack", "pirate",
      "jobs", "career", "hiring", "salary", "interview",
      "course", "training", "education", "class", "school",
      "porn", "sex", "adult", "xxx",
      "illegal", "fake", "scam", "fraud" }

IsIrrelevantFirstWordOnly(kw) ==
    kw # <<>> /\ Head(kw) \in IrrelevantTerms

IsIrrelevant(kw) == HasWord(kw, IrrelevantTerms)

FilterRelevanceMissing(t) == t

\* _filter_relevance: df[~df['keyword'].str.contains(combined_pattern)]
FilterRelevance(t) ==
    LET Keep(r) == ~IsIrrelevant(r.keyword)
    IN  SelectSeq(t, Keep)

ApplyFiltersDropLast(cfg, t) ==
    LET KeepVolume(r) ==
            r.estimated_volume >= cfg.campaign_constraints.min_search_volume
        KeepCpc(r) ==
            r.estimated_cpc_high <= cfg.campaign_constraints.max_cpc
        kept == FilterRelevance(SelectSeq(SelectSeq(t, KeepVolume), KeepCpc))
    IN  IF kept = <<>> THEN kept ELSE SubSeq(kept, 1, Len(kept) - 1)

\* _apply_filters: volume filter, CPC filter, relevance filter, reset_index
ApplyFilters(cfg, t) ==
    LET KeepVolume(r) ==
            r.estimated_volume >= cfg.campaign_constraints.min_search_volume
        KeepCpc(r) ==
            r.estimated_cpc_high <= cfg.campaign_constraints.max_cpc
    IN  FilterRelevance(SelectSeq(SelectSeq(t, KeepVolume), KeepCpc))

\* _calculate_volume_score with each threshold left in the lower bucket
CalculateVolumeScoreThresholdBelow(volume) ==
    IF volume <= 500 THEN 10
    ELSE IF volume <= 1000 THEN 30
    ELSE IF volume <= 2000 THEN 50
    ELSE IF volume <= 5000 THEN 70
    ELSE IF volume <= 10000 THEN 90
    ELSE 100

\* _calculate_volume_score (tenths)
CalculateVolumeScore(volume) ==
    IF volume < 500 THEN 10
    ELSE IF volume < 1000 THEN 30
    ELSE IF volume < 2000 THEN 50
    ELSE IF volume < 5000 THEN 70
    ELSE IF volume < 10000 THEN 90
    ELSE 100

CalculateCompetitionScoreDefaultHigh(competition) ==
    CASE competition = "Low" -> 90
      [] competition = "Medium" -> 60
      [] OTHER -> 30

\* _calculate_competition_score (tenths): competition_scores.get(c, 5.0)
CalculateCompetitionScore(competition) ==
    CASE competition = "Low" -> 90
      [] competition = "Medium" -> 60
      [] competition = "High" -> 30
      [] OTHER -> 50

\* _calculate_cpc_score (tenths) of a CPC in hundredths
CalculateCpcScore(cpc) ==
    IF cpc <= 50 THEN 100
    ELSE IF cpc <= 100 THEN 80
    ELSE IF cpc <= 150 THEN 60
    ELSE IF cpc <= 200 THEN 40
    ELSE 20

\* _calculate_relevance_score (tenths)
CalculateRelevanceScore(cfg, keyword) ==
    LET kw == Lower(keyword) IN
    IF Contains(kw, brand_name(cfg)) THEN 100
    ELSE IF ContainsAny(kw, {"buy", "price", "best", "review"}) THEN 90
    ELSE IF ContainsAny(kw, {"protein", "supplement", "shake", "powder",
                             "nutrition"}) THEN 80
    ELSE IF ContainsAny(kw, Range(cfg.service_locations)) THEN 70
    ELSE IF ContainsAny(kw, {"gym", "workout", "fitness", "muscle", "health",
                             "recovery"}) THEN 60
    ELSE 50

\* _add_performance_scores: four new columns on a copy of the table
AddPerformanceScores(cfg, t) ==
    [i \in 1..Len(t) |->
        t[i] @@ [volume_score |-> CalculateVolumeScore(t[i].estimated_volume),
                 competition_score |->
                     CalculateCompetitionScore(t[i].estimated_competition),
                 cpc_efficiency_score |->
                     CalculateCpcScore(t[i].estimated_cpc_high),
                 relevance_score |->
                     CalculateRelevanceScore(cfg, t[i].keyword)]]

\* classify_intent with the brand test ahead of the transactional patterns
ClassifyIntentBrandFirst(cfg, keyword) ==
    LET kw == Lower(keyword) IN
    IF Contains(kw, brand_name(cfg)) THEN "navigational"
    ELSE IF \/ HasWord(kw, {"buy", "purchase", "order", "price", "cost",
                            "shop", "store"})
            \/ HasWord(kw, {"cheap", "discount", "deal", "sale", "offer"})
            \/ HasPhrase(kw, "near", "me")
            \/ HasWord(kw, {"delivery", "shipping"})
    THEN "transactional"
    ELSE IF \/ HasWord(kw, {"best", "top", "review", "compare", "vs"})
            \/ HasWord(kw, {"alternative", "option", "choice"})
    THEN "commercial"
    ELSE IF \/ HasPhrase(kw, "how", "to")
            \/ HasPhrase(kw, "what", "is")
            \/ HasWord(kw, {"why", "guide", "tips"})
            \/ HasWord(kw, {"benefits", "ingredients"})
            \/ HasPhrase(kw, "side", "effects")
    THEN "informational"
    ELSE IF Len(kw) >= 4 THEN "informational"
    ELSE "commercial"

\* classify_intent inside _classify_search_intent
ClassifyIntent(cfg, keyword) ==
    LET kw == Lower(keyword) IN
    IF \/ HasWord(kw, {"buy", "purchase", "order", "price", "cost", "shop",
                       "store"})
       \/ HasWord(kw, {"cheap", "discount", "deal", "sale", "offer"})
       \/ HasPhrase(kw, "near", "me")
       \/ HasWord(kw, {"delivery", "shipping"})
    THEN "transactional"
    ELSE IF Contains(kw, brand_name(cfg)) THEN "navigational"
    ELSE IF \/ HasWord(kw, {"best", "top", "review", "compare", "vs"})
            \/ HasWord(kw, {"alternative", "option", "choice"})
    THEN "commercial"
    ELSE IF \/ HasPhrase(kw, "how", "to")
            \/ HasPhrase(kw, "what", "is")
            \/ HasWord(kw, {"why", "guide", "tips"})
            \/ HasWord(kw, {"benefits", "ingredients"})
            \/ HasPhrase(kw, "side", "effects")
    THEN "informational"
    ELSE IF Len(kw) >= 4 THEN "informational"
    ELSE "commercial"

\* intent_scores (tenths)
IntentScore(intent) ==
    CASE intent = "transactional" -> 100
      [] intent = "commercial" -> 80
      [] intent = "navigational" -> 60
      [] intent = "informational" -> 40

\* _classify_search_intent: search_intent and intent_score columns
ClassifySearchIntent(cfg, t) ==
    [i \in 1..Len(t) |->
        LET intent == ClassifyIntent(cfg, t[i].keyword)
        IN  [search_intent |-> intent,
             intent_score |-> IntentScore(intent)] @@ t[i]]

\* classify_theme with the long-tail test ahead of the location test
ClassifyThemeLongTailFirst(cfg, keyword) ==
    LET kw == Lower(keyword) IN
    IF Contains(kw, brand_name(cfg)) THEN "Brand Terms"
    ELSE IF \/ Contains(kw, competitor_name(cfg))
            \/ Contains(kw, "alternative")
            \/ Contains(kw, "vs")
    THEN "Competitor Terms"
    ELSE IF \/ Len(kw) >= 4
            \/ ContainsPhrase(kw, "how", "to")
            \/ ContainsPhrase(kw, "what", "is")
            \/ ContainsAny(kw, {"guide", "tips"})
    THEN "Long-Tail Informational"
    ELSE IF ContainsAny(kw, Range(cfg.service_locations))
    THEN "Location-based Queries"
    ELSE "Category Terms"

\* classify_theme inside _cluster_themes
ClassifyTheme(cfg, keyword) ==
    LET kw == Lower(keyword) IN
    IF Contains(kw, brand_name(cfg)) THEN "Brand Terms"
    ELSE IF \/ Contains(kw, competitor_name(cfg))
            \/ Contains(kw, "alternative")
            \/ Contains(kw, "vs")
    THEN "Competitor Terms"
    ELSE IF ContainsAny(kw, Range(cfg.service_locations))
    THEN "Location-based Queries"
    ELSE IF \/ Len(kw) >= 4
            \/ ContainsPhrase(kw, "how", "to")
            \/ ContainsPhrase(kw, "what", "is")
            \/ ContainsAny(kw, {"guide", "tips"})
    THEN "Long-Tail Informational"
    ELSE "Category Terms"

\* _cluster_themes reading the theme the row already carries
ClusterThemesFromPrevious(cfg, t) ==
    [i \in 1..Len(t) |->
        [theme |-> IF "theme" \in DOMAIN t[i] THEN "Category Terms"
                   ELSE ClassifyTheme(cfg, t[i].keyword)] @@ t[i]]

\* _cluster_themes: theme column (an assignment replaces a column the table
\* already has)
ClusterThemes(cfg, t) ==
    [i \in 1..Len(t) |-> [theme |-> ClassifyTheme(cfg, t[i].keyword)] @@ t[i]]

\* weights of _calculate_final_scores (hundredths)
Weights ==
    [volume |-> 25, competition |-> 20, cpc_efficiency |-> 20,
     relevance |-> 20, intent |-> 15]

CompositeScoreEqualWeights(r) ==
    RoundHalfEven(20 * r.volume_score
                  + 20 * r.competition_score
                  + 20 * r.cpc_efficiency_score
                  + 20 * r.relevance_score
                  + 20 * r.intent_score, 10)

\* the weighted sum of the five sub-scores (thousandths), .round(2)
\* (hundredths)
CompositeScore(r) ==
    RoundHalfEven(Weights.volume * r.volume_score
                  + Weights.competition * r.competition_score
                  + Weights.cpc_efficiency * r.cpc_efficiency_score
                  + Weights.relevance * r.relevance_score
                  + Weights.intent * r.intent_score, 10)

DenseRankAsMinRank(scores, score) ==
    Cardinality({i \in 1..Len(scores) : scores[i] > score}) + 1

\* Series.rank(method='dense', ascending=False): one more than the number of
\* distinct values above the score
DenseRank(scores, score) ==
    Cardinality({s \in Range(scores) : s > score}) + 1

ClassifyPriorityAboveThresholds(score) ==
    IF score > 800 THEN "High"
    ELSE IF score > 600 THEN "Medium"
    ELSE "Low"

\* classify_priority of a composite score in hundredths
ClassifyPriority(score) ==
    IF score >= 800 THEN "High"
    ELSE IF score >= 600 THEN "Medium"
    ELSE "Low"

\* _calculate_final_scores: composite_score, performance_rank, priority
CalculateFinalScores(t) ==
    LET scores == [i \in 1..Len(t) |-> CompositeScore(t[i])]
    IN  [i \in 1..Len(t) |->
            t[i] @@ [composite_score |-> scores[i],
                     performance_rank |-> DenseRank(scores, scores[i]),
                     priority |-> ClassifyPriority(scores[i])]]

\* process_keywords: the five stages in order
ProcessKeywords(cfg, t) ==
    CalculateFinalScores(
        ClusterThemes(cfg,
            ClassifySearchIntent(cfg,
                AddPerformanceScores(cfg, ApplyFilters(cfg, t)))))

-----------------------------------------------------------------------------
(* Column dtypes.  pandas gives every column a dtype; Series.apply and      *)
(* Series.map on an empty Series return an empty Series of the SOURCE       *)
(* column's dtype, and arithmetic with an object operand is object.         *)

RawColumns ==
    [keyword |-> "object", source |-> "object", estimated_volume |-> "int64",
     estimated_competition |-> "object", estimated_cpc_low |-> "float64",
     estimated_cpc_high |-> "float64"]

\* dtype of src.apply(f) / src.map(d) on n rows, f returning values of dtype out
ApplyDtype(n, src, out) == IF n = 0 THEN src ELSE out

\* dtype of an arithmetic expression over columns of the given dtypes
ArithDtype(dtypes) == IF "object" \in dtypes THEN "object" ELSE "float64"

AddPerformanceScoresColumns(cols, n) ==
    [volume_score |-> ApplyDtype(n, cols.estimated_volume, "float64"),
     competition_score |-> ApplyDtype(n, cols.estimated_competition, "float64"),
     cpc_efficiency_score |-> ApplyDtype(n, cols.estimated_cpc_high, "float64"),
     relevance_score |-> ApplyDtype(n, cols.keyword, "float64")] @@ cols

\* search_intent is keyword.apply(...); intent_score is
\* search_intent.map(intent_scores), which takes the dict's float values
ClassifySearchIntentColumns(cols, n) ==
    [search_intent |-> ApplyDtype(n, cols.keyword, "object"),
     intent_score |-> "float64"] @@ cols

ClusterThemesColumns(cols, n) ==
    [theme |-> ApplyDtype(n, cols.keyword, "object")] @@ cols

CalculateFinalScoresColumns(cols, n) ==
    LET composite == ArithDtype({cols.volume_score, cols.competition_score,
                                 cols.cpc_efficiency_score,
                                 cols.relevance_score, cols.intent_score})
    IN  [composite_score |-> composite,
         performance_rank |-> "int64",
         priority |-> ApplyDtype(n, composite, "object")] @@ cols

\* the columns of the table process_keywords returns for n surviving rows
ProcessKeywordsColumns(n) ==
    CalculateFinalScoresColumns(
        ClusterThemesColumns(
            ClassifySearchIntentColumns(
                AddPerformanceScoresColumns(RawColumns, n), n), n), n)

-----------------------------------------------------------------------------
(* CampaignBuilder: search ad groups *)

\* self.match_type_strategy as set by __init__
InitialMatchTypeStrategy ==
    [t \in {"Brand Terms", "Category Terms", "Competitor Terms",
            "Location-based Queries", "Long-Tail Informational"} |->
        CASE t = "Brand Terms" -> <<"Exact", "Phrase">>
          [] t = "Category Terms" -> <<"Phrase", "Broad">>
          [] t = "Competitor Terms" -> <<"Phrase", "Exact">>
          [] t = "Location-based Queries" -> <<"Phrase">>
          [] t = "Long-Tail Informational" -> <<"Broad", "Phrase">>]

\* self.bidding_strategy: multiplier in tenths, theme priority
BiddingStrategy ==
    [t \in DOMAIN InitialMatchTypeStrategy |->
        CASE t = "Brand Terms" -> [multiplier |-> 12, priority |-> "High"]
          [] t = "Category Terms" -> [multiplier |-> 10, priority |-> "Medium"]
          [] t = "Competitor Terms" -> [multiplier |-> 9, priority |-> "Medium"]
          [] t = "Location-based Queries" ->
                 [multiplier |-> 8, priority |-> "High"]
          [] t = "Long-Tail Informational" ->
                 [multiplier |-> 7, priority |-> "Low"]]

\* the order in which df.groupby('theme') yields its groups: sorted keys
ThemeOrder ==
    <<"Brand Terms", "Category Terms", "Competitor Terms",
      "Location-based Queries", "Long-Tail Informational">>

\* head(25): the per-ad-group limit
MaxKeywordsPerAdGroup == 25

\* the list _get_match_types ends up with (before [:2]) for a strategy list
AdjustedMatchTypes(base, intent) ==
    IF intent = "transactional" /\ "Exact" \notin Range(base)
    THEN <<"Exact">> \o base
    ELSE IF intent = "informational" /\ "Broad" \notin Range(base)
    THEN Append(base, "Broad")
    ELSE base

\* _get_match_types: the first two entries, joined with ', '
GetMatchTypes(strategy, theme, intent) ==
    LET l == AdjustedMatchTypes(strategy[theme], intent)
    IN  SubSeq(l, 1, IF Len(l) < 2 THEN Len(l) ELSE 2)

\* the strategy table after _get_match_types: base_match_types.append('Broad')
\* appends to the list stored in the table; ['Exact'] + base builds a new list
StrategyAfterGetMatchTypes(strategy, theme, intent) ==
    IF intent = "informational" /\ "Broad" \notin Range(strategy[theme])
    THEN [strategy EXCEPT ![theme] = Append(@, "Broad")]
    ELSE strategy

Max(a, b) == IF a >= b THEN a ELSE b

Min(a, b) == IF a <= b THEN a ELSE b

\* _calculate_suggested_cpc with the high bid capped at max_cpc last
CalculateSuggestedCpcCappedHigh(cfg, row, theme) ==
    LET multiplier == BiddingStrategy[theme].multiplier
        max_cpc == cfg.campaign_constraints.max_cpc
        low0 == RoundHalfEven(row.estimated_cpc_low * multiplier, 10)
        high0 == RoundHalfEven(row.estimated_cpc_high * multiplier, 10)
        low == Max(25, Min(low0, max_cpc))
        high == Min(Max(low + 10, high0), max_cpc)
    IN  <<low, high>>

\* _calculate_suggested_cpc: <<low, high>> in hundredths
CalculateSuggestedCpc(cfg, row, theme) ==
    LET multiplier == BiddingStrategy[theme].multiplier
        max_cpc == cfg.campaign_constraints.max_cpc
        low0 == RoundHalfEven(row.estimated_cpc_low * multiplier, 10)
        high0 == RoundHalfEven(row.estimated_cpc_high * multiplier, 10)
        low == Max(25, Min(low0, max_cpc))
        high == Max(low + 10, Min(high0, max_cpc))
    IN  <<low, high>>

\* _calculate_expected_performance: <<clicks, conversions in tenths>>;
\* impression share in tenths, CTR in hundredths, conversion rate in
\* thousandths
CalculateExpectedPerformance(cfg, row) ==
    LET share == CASE row.estimated_competition = "Low" -> 8
                   [] row.estimated_competition = "Medium" -> 6
                   [] row.estimated_competition = "High" -> 4
                   [] OTHER -> 6
        ctr == CASE row.search_intent = "transactional" -> 5
                 [] row.search_intent = "commercial" -> 3
                 [] row.search_intent = "navigational" -> 8
                 [] row.search_intent = "informational" -> 2
                 [] OTHER -> 3
        clicks == RoundHalfEven(row.estimated_volume * share * ctr, 1000)
        conversions ==
            RoundHalfEven(
                clicks * cfg.campaign_constraints.target_conversion_rate, 100)
    IN  <<clicks, conversions>>

RECURSIVE InsertByScore(_, _)
\* place r after every row whose composite_score is at least r's
InsertByScore(sorted, r) ==
    IF sorted = <<>> THEN <<r>>
    ELSE IF Head(sorted).composite_score >= r.composite_score
         THEN <<Head(sorted)>> \o InsertByScore(Tail(sorted), r)
         ELSE <<r>> \o sorted

RECURSIVE SortByScore(_)
\* sort_values('composite_score', ascending=False); on a group too small for
\* the sort to leave insertion sort, equal scores keep their table order
SortByScore(t) ==
    IF t = <<>> THEN <<>>
    ELSE InsertByScore(SortByScore(SubSeq(t, 1, Len(t) - 1)), t[Len(t)])

\* head(n) / keywords[:n]
Take(t, n) == SubSeq(t, 1, Min(Len(t), n))

\* the first 25 rows of one theme in table order
TopKeywordsUnsorted(t, theme) ==
    LET InTheme(r) == r.theme = theme
    IN  Take(SelectSeq(t, InTheme), MaxKeywordsPerAdGroup)

\* the rows of one theme, sorted, limited to 25
TopKeywords(t, theme) ==
    LET InTheme(r) == r.theme = theme
    IN  Take(SortByScore(SelectSeq(t, InTheme)), MaxKeywordsPerAdGroup)

\* all retained rows in the order the two loops visit them
RECURSIVE SearchVisitOrder(_, _)
SearchVisitOrder(t, themes) ==
    IF themes = <<>> THEN <<>>
    ELSE TopKeywords(t, Head(themes)) \o SearchVisitOrder(t, Tail(themes))

RECURSIVE StrategyAfterRows(_, _)
\* the strategy table after _get_match_types has run for each row in turn
StrategyAfterRows(strategy, rows) ==
    IF rows = <<>> THEN strategy
    ELSE StrategyAfterRows(
             StrategyAfterGetMatchTypes(strategy, Head(rows).theme,
                                        Head(rows).search_intent),
             Tail(rows))

\* one appended dictionary of search_campaigns, for the k-th visited row
SearchRow(cfg, strategy, rows, k) ==
    LET row == rows[k]
        before == StrategyAfterRows(strategy, SubSeq(rows, 1, k - 1))
        cpc == CalculateSuggestedCpc(cfg, row, row.theme)
        perf == CalculateExpectedPerformance(cfg, row)
    IN  [campaign_type |-> "Search",
         ad_group |-> row.theme,
         keyword |-> row.keyword,
         match_types |-> GetMatchTypes(before, row.theme, row.search_intent),
         suggested_cpc_low |-> cpc[1],
         suggested_cpc_high |-> cpc[2],
         estimated_volume |-> row.estimated_volume,
         competition |-> row.estimated_competition,
         search_intent |-> row.search_intent,
         composite_score |-> row.composite_score,
         priority |-> BiddingStrategy[row.theme].priority,
         expected_monthly_clicks |-> perf[1],
         expected_monthly_conversions |-> perf[2],
         source |-> row.source]

\* budget weight of a theme priority, in tenths
PriorityWeight(priority) ==
    CASE priority = "High" -> 15
      [] priority = "Low" -> 7
      [] OTHER -> 10

ThemeWeight(theme) == PriorityWeight(BiddingStrategy[theme].priority)

RECURSIVE SumOver(_, _)
SumOver(S, f) ==
    IF S = {} THEN 0
    ELSE LET x == CHOOSE y \in S : TRUE
         IN  f[x] + SumOver(S \ {x}, f)

ThemeBudgetsUnnormalised(themes, total_search_budget) ==
    {[t \in themes |-> RoundHalfEven(ThemeWeight(t) * total_search_budget,
                                     10 * Cardinality(themes))]}

\* theme_budgets of _add_search_budget_allocation:
\* round(weight / total_weight * total_search_budget, 0) per theme present;
\* the set of dictionaries the float arithmetic can yield (one, unless some
\* share is an exact half)
ThemeBudgets(themes, total_search_budget) ==
    LET total_weight == SumOver(themes, [t \in themes |-> ThemeWeight(t)])
        Choices(t) ==
            RoundChoices(ThemeWeight(t) * total_search_budget, total_weight)
        Low(t) == (ThemeWeight(t) * total_search_budget) \div total_weight
    IN  {[t \in themes |-> Low(t) + up[t]] :
            up \in {u \in [themes -> {0, 1}] :
                        \A t \in themes : Low(t) + u[t] \in Choices(t)}}

\* _add_search_budget_allocation on the table built from the row list: the
\* possible outcomes; a table built from an empty list has no columns, so
\* df['ad_group'] raises
AddSearchBudgetAllocation(cfg, rows) ==
    IF rows = <<>>
    THEN {[error |-> "KeyError", rows |-> <<>>]}
    ELSE LET themes == {rows[i].ad_group : i \in 1..Len(rows)}
         IN  {[error |-> "none",
               rows |-> [i \in 1..Len(rows) |->
                            rows[i] @@ [theme_monthly_budget |->
                                            theme_budgets[rows[i].ad_group]]]] :
                 theme_budgets \in ThemeBudgets(themes, cfg.budgets.search_ads)}

\* build_search_campaigns: the possible outcomes, each the returned table or
\* the exception raised
BuildSearchCampaigns(cfg, strategy, t) ==
    LET visited == SearchVisitOrder(t, ThemeOrder)
    IN  AddSearchBudgetAllocation(cfg,
            [k \in 1..Len(visited) |-> SearchRow(cfg, strategy, visited, k)])

-----------------------------------------------------------------------------
(* CampaignBuilder: Performance Max themes *)

\* DataFrame.nlargest(n, 'composite_score'): refuses a column of dtype object,
\* whatever the number of rows; otherwise the n highest, first occurrences
\* first among equal scores
NLargestRaises(cols) == cols.composite_score = "object"

NLargest(t, n) == Take(SortByScore(t), n)

Keywords(t) == [i \in 1..Len(t) |-> t[i].keyword]

ProfessionalFallback ==
    << <<"protein", "for", "professionals">>,
       <<"busy", "lifestyle", "nutrition">>,
       <<"office", "wellness">> >>

SeasonalFallback ==
    << <<"fitness", "goals">>, <<"health", "resolutions">>,
       <<"seasonal", "nutrition">> >>

\* _get_theme_keywords for one of the four theme types used by the templates
GetThemeKeywords(t, theme_type) ==
    LET Product(r) ==
            r.theme = "Category Terms" \/ r.search_intent = "transactional"
        Recovery(r) ==
            ContainsAny(r.keyword, {"recovery", "workout", "post", "muscle"})
        Professional(r) ==
            ContainsAny(r.keyword, {"professional", "busy", "office", "work"})
        Seasonal(r) ==
            \/ ContainsPhrase(r.keyword, "new", "year")
            \/ ContainsAny(r.keyword, {"summer", "winter", "resolution"})
        keywords ==
            CASE theme_type = "product" ->
                     Keywords(NLargest(SelectSeq(t, Product), 8))
              [] theme_type = "recovery" ->
                     Keywords(NLargest(SelectSeq(t, Recovery), 6))
              [] theme_type = "professional" ->
                     LET k == Keywords(NLargest(SelectSeq(t, Professional), 5))
                     IN  IF k = <<>> THEN ProfessionalFallback ELSE k
              [] theme_type = "seasonal" ->
                     LET k == Keywords(NLargest(SelectSeq(t, Seasonal), 5))
                     IN  IF k = <<>> THEN SeasonalFallback ELSE k
    IN  Take(keywords, 8)

CalculatePmaxPerformanceByVolumeOnly(cfg, t, keywords, budget) ==
    LET InTheme(r) == r.keyword \in Range(keywords)
        theme_keywords_df == SelectSeq(t, InTheme)
        n == Len(theme_keywords_df)
        total_volume ==
            IF n = 0 THEN 10000
            ELSE SumSeq([i \in 1..n |-> theme_keywords_df[i].estimated_volume])
        rate == cfg.campaign_constraints.target_conversion_rate
    IN  [impressions |-> RoundHalfEven(3 * total_volume, 2),
         clicks |-> RoundHalfEven(3 * total_volume, 100),
         conversions |-> RoundHalfEven(3 * total_volume * rate, 10000),
         target_roas |-> Max(RoundHalfEven(10000, rate), 30)]

\* _calculate_pmax_performance; budget in hundredths of a unit
CalculatePmaxPerformance(cfg, t, keywords, budget) ==
    LET InTheme(r) == r.keyword \in Range(keywords)
        theme_keywords_df == SelectSeq(t, InTheme)
        n == Len(theme_keywords_df)
        \* avg_cpc = cpc_sum / cpc_n hundredths
        cpc_sum ==
            IF n = 0 THEN 100
            ELSE SumSeq([i \in 1..n |-> theme_keywords_df[i].estimated_cpc_high])
        cpc_n == IF n = 0 THEN 1 ELSE n
        total_volume ==
            IF n = 0 THEN 10000
            ELSE SumSeq([i \in 1..n |-> theme_keywords_df[i].estimated_volume])
        \* budget / avg_cpc = by_budget_num / cpc_sum clicks;
        \* total_volume * 1.5 * 0.02 = 3 * total_volume / 100 clicks
        by_budget_num == budget * cpc_n
        budget_is_less == 100 * by_budget_num <= 3 * total_volume * cpc_sum
        clicks_num == IF budget_is_less THEN by_budget_num ELSE 3 * total_volume
        clicks_den == IF budget_is_less THEN cpc_sum ELSE 100
        rate == cfg.campaign_constraints.target_conversion_rate
    IN  [impressions |-> RoundHalfEven(3 * total_volume, 2),
         clicks |-> RoundHalfEven(clicks_num, clicks_den),
         conversions |-> RoundHalfEven(clicks_num * rate, clicks_den * 100),
         target_roas |-> Max(RoundHalfEven(10000, rate), 30)]

\* the four theme templates: type, filter, name, intent, share in hundredths
PmaxTemplates ==
    << [theme_type |-> "Product Category", filter |-> "product",
        theme_name |-> "Premium Protein Solutions",
        primary_intent |-> "Purchase", budget_allocation |-> 35],
       [theme_type |-> "Use-case Based", filter |-> "recovery",
        theme_name |-> "Post-Workout Recovery",
        primary_intent |-> "Solution-seeking", budget_allocation |-> 30],
       [theme_type |-> "Demographic", filter |-> "professional",
        theme_name |-> "Nutrition for Professionals",
        primary_intent |-> "Convenience", budget_allocation |-> 20],
       [theme_type |-> "Seasonal", filter |-> "seasonal",
        theme_name |-> "Fitness Resolution Goals",
        primary_intent |-> "Goal-achievement", budget_allocation |-> 15] >>

\* one row of pmax_df; monthly_budget in hundredths of a unit
PmaxRow(cfg, t, template) ==
    LET keywords == GetThemeKeywords(t, template.filter)
        monthly_budget == template.budget_allocation * cfg.budgets.pmax_ads
        performance == CalculatePmaxPerformance(cfg, t, keywords, monthly_budget)
    IN  [theme_type |-> template.theme_type,
         theme_name |-> template.theme_name,
         target_keywords |-> keywords,
         primary_intent |-> template.primary_intent,
         budget_allocation |-> template.budget_allocation,
         monthly_budget |-> monthly_budget,
         expected_impressions |-> performance.impressions,
         expected_clicks |-> performance.clicks,
         expected_conversions |-> performance.conversions,
         target_roas |-> performance.target_roas]

\* build_pmax_campaigns: the returned table, or the exception raised while
\* the template list is being built
BuildPmaxCampaigns(cfg, cols, t) ==
    IF NLargestRaises(cols)
    THEN [error |-> "TypeError", rows |-> <<>>]
    ELSE [error |-> "none",
          rows |-> [k \in 1..Len(PmaxTemplates) |->
                       PmaxRow(cfg, t, PmaxTemplates[k])]]

-----------------------------------------------------------------------------
(* CampaignBuilder: shopping categories *)

\* _identify_product_categories (with the same term lists as the
\* category_map of _get_category_keywords); margin and weight in tenths
ProductCategories ==
    << [name |-> "Vegan Protein Products",
        keywords |-> {"vegan", "plant", "organic"},
        priority |-> "High", margin_factor |-> 12, budget_weight |-> 15],
       [name |-> "Recovery Supplements",
        keywords |-> {"recovery", "post", "muscle"},
        priority |-> "High", margin_factor |-> 11, budget_weight |-> 13],
       [name |-> "Womens Nutrition",
        keywords |-> {"women", "female", "ladies"},
        priority |-> "Medium", margin_factor |-> 10, budget_weight |-> 10],
       [name |-> "General Protein Supplements",
        keywords |-> {"protein", "supplement", "powder"},
        priority |-> "Medium", margin_factor |-> 9, budget_weight |-> 8] >>

\* _get_category_keywords: df[df['keyword'].str.contains('a|b|c')]
GetCategoryKeywords(t, category) ==
    LET Matches(r) == ContainsAny(r.keyword, category.keywords)
    IN  SelectSeq(t, Matches)

\* alphabetical rank of a competition label, for Series.mode()'s sorted result
LabelOrder(c) ==
    CASE c = "High" -> 1 [] c = "Low" -> 2 [] c = "Medium" -> 3 [] OTHER -> 4

\* estimated_competition.mode().iloc[0]: the most frequent label, the
\* alphabetically first among equally frequent ones
ModeCompetition(t) ==
    LET Count(c) == Cardinality({i \in 1..Len(t) : t[i].estimated_competition = c})
        labels == {t[i].estimated_competition : i \in 1..Len(t)}
        best == {c \in labels : \A d \in labels : Count(d) <= Count(c)}
    IN  CHOOSE c \in best : \A d \in best : LabelOrder(c) <= LabelOrder(d)

AdjustCpcForCategoryOtherAsHigh(base_cpc, category, competition) ==
    LET adjustment == CASE competition = "Low" -> 9
                        [] competition = "Medium" -> 10
                        [] OTHER -> 11
    IN  RoundHalfEven(base_cpc * category.margin_factor * adjustment, 100)

\* _adjust_cpc_for_category: hundredths
AdjustCpcForCategory(base_cpc, category, competition) ==
    LET adjustment == CASE competition = "Low" -> 9
                        [] competition = "Medium" -> 10
                        [] competition = "High" -> 11
                        [] OTHER -> 10
    IN  RoundHalfEven(base_cpc * category.margin_factor * adjustment, 100)

\* _get_shopping_bidding_strategy
GetShoppingBiddingStrategy(category, competition) ==
    IF category.priority = "High" /\ competition = "Low"
    THEN "Aggressive bidding to maximize market share"
    ELSE IF category.priority = "High"
    THEN "Target CPA bidding with volume focus"
    ELSE IF competition = "High"
    THEN "Conservative Target ROAS bidding"
    ELSE "Balanced Target CPA approach"

\* the dictionary appended for a category that has matching keywords
ShoppingRow(cfg, category, category_keywords) ==
    LET n == Len(category_keywords)
        avg_competition == ModeCompetition(category_keywords)
        target_cpc ==
            RoundHalfEven(cfg.campaign_constraints.target_cpa
                          * cfg.campaign_constraints.target_conversion_rate, 10)
    IN  [product_category |-> category.name,
         avg_monthly_volume |->
             RoundHalfEven(
                 SumSeq([i \in 1..n |-> category_keywords[i].estimated_volume]),
                 n),
         competition_level |-> avg_competition,
         top_of_page_bid_low |->
             RoundHalfEven(
                 SumSeq([i \in 1..n |-> category_keywords[i].estimated_cpc_low]),
                 n),
         top_of_page_bid_high |->
             RoundHalfEven(
                 SumSeq([i \in 1..n |-> category_keywords[i].estimated_cpc_high]),
                 n),
         target_cpc_formula |-> target_cpc,
         suggested_cpc |->
             AdjustCpcForCategory(target_cpc, category, avg_competition),
         priority_level |-> category.priority,
         margin_factor |-> category.margin_factor,
         bidding_strategy |->
             GetShoppingBiddingStrategy(category, avg_competition),
         budget_allocation |-> category.budget_weight]

RECURSIVE ShoppingRows(_, _, _)
\* the loop over the categories: a category without keywords is skipped
ShoppingRows(cfg, t, categories) ==
    IF categories = <<>> THEN <<>>
    ELSE LET category_keywords == GetCategoryKeywords(t, Head(categories))
             rest == ShoppingRows(cfg, t, Tail(categories))
         IN  IF category_keywords = <<>> THEN rest
             ELSE <<ShoppingRow(cfg, Head(categories), category_keywords)>>
                  \o rest

ShoppingBudgetsByCount(weights, shopping_ads) ==
    {[i \in 1..Len(weights) |->
         RoundHalfEven(weights[i] * shopping_ads, 10 * Len(weights))]}

\* monthly_budget: (budget_allocation / total_weight * shopping_ads).round(0)
\* for the budget_allocation column of a table with at least one row; the
\* set of columns the float arithmetic can yield (one, unless some share is
\* an exact half)
ShoppingBudgets(weights, shopping_ads) ==
    LET total_weight == SumSeq(weights)
        rows == 1..Len(weights)
        Choices(i) == RoundChoices(weights[i] * shopping_ads, total_weight)
        Low(i) == (weights[i] * shopping_ads) \div total_weight
    IN  {[i \in rows |-> Low(i) + up[i]] :
            up \in {u \in [rows -> {0, 1}] :
                        \A i \in rows : Low(i) + u[i] \in Choices(i)}}

\* calculate_projections of _add_shopping_performance_projections
ShoppingProjection(cfg, row) ==
    LET clicks == RoundHalfEven(100 * row.monthly_budget, row.suggested_cpc)
    IN  [expected_monthly_clicks |-> clicks,
         expected_monthly_conversions |->
             RoundHalfEven(
                 clicks * cfg.campaign_constraints.target_conversion_rate, 100)]

\* build_shopping_campaigns: the possible outcomes, each the returned table
\* or the exception raised; a table built from an empty list has no columns,
\* so shopping_df['budget_allocation'] raises
BuildShoppingCampaigns(cfg, t) ==
    LET rows == ShoppingRows(cfg, t, ProductCategories)
    IN  IF rows = <<>>
        THEN {[error |-> "KeyError", rows |-> <<>>]}
        ELSE {[error |-> "none",
               rows |-> [i \in 1..Len(rows) |->
                   LET with_budget ==
                           rows[i] @@ [monthly_budget |-> budgets[i]]
                   IN  with_budget @@ ShoppingProjection(cfg, with_budget)]] :
                 budgets \in ShoppingBudgets(
                     [i \in 1..Len(rows) |-> rows[i].budget_allocation],
                     cfg.budgets.shopping_ads)}

-----------------------------------------------------------------------------
(* Inputs *)

\* a raw keyword record; CPC in hundredths
Rec(kw, src, volume, competition, cpc_low, cpc_high) ==
    [keyword |-> kw, source |-> src, estimated_volume |-> volume,
     estimated_competition |-> competition, estimated_cpc_low |-> cpc_low,
     estimated_cpc_high |-> cpc_high]

\* the raw records tables are drawn from
RawPool ==
    { Rec(<<"nutrimax", "protein">>, "brand_variant", 800, "Low", 26, 70),
      Rec(<<"buy", "vegan", "protein">>, "commercial_variant", 6000, "High",
          80, 200),
      Rec(<<"muscle", "recovery", "mumbai">>, "location_variant", 700,
          "Medium", 50, 126),
      Rec(<<"women", "protein", "powder">>, "seed_direct", 2500, "Medium",
          56, 130),
      Rec(<<"free", "protein", "shake">>, "longtail_variant", 4000, "Low",
          30, 80),
      Rec(<<"best", "whey", "powder">>, "commercial_variant", 12000,
          "Unknown", 120, 260),
      Rec(<<"how", "to", "use", "whey", "protein">>, "longtail_variant", 1200,
          "Low", 20, 60) }

RawTables == UNION {[1..n -> RawPool] : n \in 0..MaxRows}

\* budgets of a validated configuration, in whole currency units
Budgets(search_ads, shopping_ads, pmax_ads) ==
    [search_ads |-> search_ads, shopping_ads |-> shopping_ads,
     pmax_ads |-> pmax_ads,
     total_monthly |-> search_ads + shopping_ads + pmax_ads]

\* a validated configuration; names are already lower case, the conversion
\* rate is in thousandths, max_cpc in hundredths
Config(min_search_volume, max_cpc, budgets) ==
    [brand |-> [name |-> "nutrimax"],
     competitor |-> [name |-> "rivalfit"],
     service_locations |-> <<"mumbai", "delhi">>,
     seed_keywords |-> << <<"protein">> >>,
     budgets |-> budgets,
     campaign_constraints |->
         [min_search_volume |-> min_search_volume, max_cpc |-> max_cpc,
          min_keyword_length |-> 3, max_keyword_length |-> 80,
          target_conversion_rate |-> 20, target_cpa |-> 500]]

Configs ==
    {Config(v, c, Budgets(5000, 3000, 2000)) : v \in {500, 1000},
                                               c \in {200, 300}}

-----------------------------------------------------------------------------
(* Specification: process_keywords stage by stage, then the three builders  *)
(* of one CampaignBuilder called on the scored table in any order.          *)

\* main's failure slot while no exception has been raised
NoFailure == [exception |-> "none", missing |-> "nothing", stage |-> "none"]

\* the outcome slot of a builder method that has not been called
NotCalled == [called |-> FALSE, error |-> "none", rows |-> <<>>]

\* the outcome of a call: the exception raised ("none" if it returned) and
\* the rows of the returned table
Called(outcome) == [called |-> TRUE] @@ outcome

\* main is not running
MainIdle ==
    /\ yaml_keys = {}
    /\ present = {}
    /\ invalid = {}
    /\ stage = "idle"
    /\ failure = NoFailure
    /\ scored = "none"

\* no KeywordGenerator exists
GeneratorIdle ==
    /\ rng = 0
    /\ generators = <<>>
    /\ tables = <<>>
    /\ other_draws = 0

Init ==
    /\ config \in Configs
    /\ raw \in RawTables
    /\ pc = "start"
    /\ df = raw
    /\ columns = RawColumns
    /\ df_filtered = <<>>
    /\ passes = 0
    /\ error = "none"
    /\ match_type_strategy = InitialMatchTypeStrategy
    /\ search = NotCalled
    /\ pmax = NotCalled
    /\ shopping = NotCalled
    /\ MainIdle
    /\ GeneratorIdle

BuilderVars == <<match_type_strategy, search, pmax, shopping>>

\* a stage reading columns the table lacks raises KeyError
Missing(needed) == ~(needed \subseteq DOMAIN columns)

\* df_filtered = self._apply_filters(df)
ApplyFiltersStep ==
    /\ pc = "start"
    /\ IF Missing({"estimated_volume", "estimated_cpc_high", "keyword"})
       THEN /\ error' = "KeyError"
            /\ pc' = "raised"
            /\ UNCHANGED <<df, df_filtered>>
       ELSE /\ df' = ApplyFilters(config, raw)
            /\ df_filtered' = df'
            /\ pc' = "filtered"
            /\ UNCHANGED error
    /\ UNCHANGED <<config, raw, columns, passes, BuilderVars>>
    /\ UNCHANGED <<MainVars, GeneratorVars>>

\* _apply_filters called again on a table _apply_filters returned
Refilter ==
    /\ pc \in {"filtered", "refiltered"}
    /\ passes < MaxPasses
    /\ df' = ApplyFilters(config, df)
    /\ passes' = passes + 1
    /\ pc' = "refiltered"
    /\ UNCHANGED <<config, raw, columns, df_filtered, error, BuilderVars>>
    /\ UNCHANGED <<MainVars, GeneratorVars>>

\* df_scored = self._add_performance_scores(df_filtered)
AddPerformanceScoresStep ==
    /\ pc = "filtered"
    /\ IF Missing({"estimated_volume", "estimated_competition",
                   "estimated_cpc_high", "keyword"})
       THEN /\ error' = "KeyError"
            /\ pc' = "raised"
            /\ UNCHANGED <<df, columns>>
       ELSE /\ df' = AddPerformanceScores(config, df)
            /\ columns' = AddPerformanceScoresColumns(columns, Len(df))
            /\ pc' = "scored"
            /\ UNCHANGED error
    /\ UNCHANGED <<config, raw, df_filtered, passes, BuilderVars>>
    /\ UNCHANGED <<MainVars, GeneratorVars>>

\* df_intent = self._classify_search_intent(df_scored)
ClassifySearchIntentStep ==
    /\ pc = "scored"
    /\ IF Missing({"keyword"})
       THEN /\ error' = "KeyError"
            /\ pc' = "raised"
            /\ UNCHANGED <<df, columns>>
       ELSE /\ df' = ClassifySearchIntent(config, df)
            /\ columns' = ClassifySearchIntentColumns(columns, Len(df))
            /\ pc' = "intent"
            /\ UNCHANGED error
    /\ UNCHANGED <<config, raw, df_filtered, passes, BuilderVars>>
    /\ UNCHANGED <<MainVars, GeneratorVars>>

\* df_themed = self._cluster_themes(df_intent)
ClusterThemesStep ==
    /\ pc = "intent"
    /\ IF Missing({"keyword"})
       THEN /\ error' = "KeyError"
            /\ pc' = "raised"
            /\ UNCHANGED <<df, columns>>
       ELSE /\ df' = ClusterThemes(config, df)
            /\ columns' = ClusterThemesColumns(columns, Len(df))
            /\ pc' = "themed"
            /\ UNCHANGED error
    /\ UNCHANGED <<config, raw, df_filtered, passes, BuilderVars>>
    /\ UNCHANGED <<MainVars, GeneratorVars>>

\* df_final = self._calculate_final_scores(df_themed); return df_final
CalculateFinalScoresStep ==
    /\ pc = "themed"
    /\ IF Missing({"volume_score", "competition_score",
                   "cpc_efficiency_score", "relevance_score", "intent_score"})
       THEN /\ error' = "KeyError"
            /\ pc' = "raised"
            /\ UNCHANGED <<df, columns>>
       ELSE /\ df' = CalculateFinalScores(df)
            /\ columns' = CalculateFinalScoresColumns(columns, Len(df))
            /\ pc' = "done"
            /\ UNCHANGED error
    /\ UNCHANGED <<config, raw, df_filtered, passes, BuilderVars>>
    /\ UNCHANGED <<MainVars, GeneratorVars>>

\* campaign_builder.build_search_campaigns(processed_keywords)
BuildSearch ==
    /\ pc = "done"
    /\ ~search.called
    /\ \E outcome \in BuildSearchCampaigns(config, match_type_strategy, df) :
           search' = Called(outcome)
    /\ match_type_strategy' =
           StrategyAfterRows(match_type_strategy,
                             SearchVisitOrder(df, ThemeOrder))
    /\ UNCHANGED <<config, raw, pc, df, columns, df_filtered, passes, error,
                   pmax, shopping>>
    /\ UNCHANGED <<MainVars, GeneratorVars>>

\* campaign_builder.build_pmax_campaigns(processed_keywords)
BuildPmax ==
    /\ pc = "done"
    /\ ~pmax.called
    /\ pmax' = Called(BuildPmaxCampaigns(config, columns, df))
    /\ UNCHANGED <<config, raw, pc, df, columns, df_filtered, passes, error,
                   match_type_strategy, search, shopping>>
    /\ UNCHANGED <<MainVars, GeneratorVars>>

\* campaign_builder.build_shopping_campaigns(processed_keywords)
BuildShopping ==
    /\ pc = "done"
    /\ ~shopping.called
    /\ \E outcome \in BuildShoppingCampaigns(config, df) :
           shopping' = Called(outcome)
    /\ UNCHANGED <<config, raw, pc, df, columns, df_filtered, passes, error,
                   match_type_strategy, search, pmax>>
    /\ UNCHANGED <<MainVars, GeneratorVars>>

Next ==
    \/ ApplyFiltersStep
    \/ Refilter
    \/ AddPerformanceScoresStep
    \/ ClassifySearchIntentStep
    \/ ClusterThemesStep
    \/ CalculateFinalScoresStep
    \/ BuildSearch
    \/ BuildPmax
    \/ BuildShopping

Spec == Init /\ [][Next]_vars

-----------------------------------------------------------------------------
(* Properties of process_keywords and the builders, checked under Spec *)

ScoredFields ==
    {"volume_score", "competition_score", "cpc_efficiency_score",
     "relevance_score", "search_intent", "intent_score", "theme",
     "composite_score", "performance_rank", "priority"}

\* the volume, CPC or relevance filter removes the raw record
RemovedByAFilter(r) ==
    \/ r.estimated_volume < config.campaign_constraints.min_search_volume
    \/ r.estimated_cpc_high > config.campaign_constraints.max_cpc
    \/ \E i \in 1..Len(r.keyword) : r.keyword[i] \in IrrelevantTerms

\* C1: for every scored record produced by process_keywords,
\* composite_score (hundredths) is 0.25*volume_score + 0.20*competition_score
\* + 0.20*cpc_efficiency_score + 0.20*relevance_score + 0.15*intent_score
\* rounded to 2 decimals, and the five weights sum to exactly 1.0.
C1_CompositeIsWeightedSum ==
    /\ Weights.volume + Weights.competition + Weights.cpc_efficiency
           + Weights.relevance + Weights.intent = 100
    /\ pc = "done" =>
           \A i \in 1..Len(df) :
               df[i].composite_score =
                   RoundHalfEven(25 * df[i].volume_score
                                 + 20 * df[i].competition_score
                                 + 20 * df[i].cpc_efficiency_score
                                 + 20 * df[i].relevance_score
                                 + 15 * df[i].intent_score, 10)

\* process_keywords returned records whose five sub-scores are not all equal
C1_Witness ==
    /\ pc = "done"
    /\ \E i \in 1..Len(df) :
           /\ df[i].volume_score # df[i].intent_score
           /\ df[i].competition_score # df[i].relevance_score

\* C2: performance_rank is a dense descending rank of composite_score: with
\* N distinct scores the ranks used are exactly 1..N, the highest score has
\* rank 1, two records share a rank iff they share a score, and a strictly
\* higher score has a strictly smaller rank.
C2_DenseDescendingRank ==
    pc = "done" =>
        LET rows == 1..Len(df)
            scores == {df[i].composite_score : i \in rows}
            ranks == {df[i].performance_rank : i \in rows}
        IN  /\ ranks = 1..Cardinality(scores)
            /\ \A i \in rows :
                   (\A j \in rows :
                        df[j].composite_score <= df[i].composite_score)
                       => df[i].performance_rank = 1
            /\ \A i, j \in rows :
                   /\ (df[i].performance_rank = df[j].performance_rank)
                          <=> (df[i].composite_score = df[j].composite_score)
                   /\ df[i].composite_score > df[j].composite_score
                          => df[i].performance_rank < df[j].performance_rank

\* a scored table where two records tie above a third
C2_Witness ==
    /\ pc = "done"
    /\ \E i, j, k \in 1..Len(df) :
           /\ i # j
           /\ df[i].composite_score = df[j].composite_score
           /\ df[i].composite_score > df[k].composite_score
           /\ df[k].performance_rank = 2

\* C25: competition_score is 9 for Low, 6 for Medium, 3 for High and 5 for
\* any other value of estimated_competition, without an exception; the
\* pipeline still gives such a record its composite score, rank and priority.
C25_CompetitionScoreDefaultsToFive ==
    /\ \A competition \in {"Low", "Medium", "High", "Unknown", "low", ""} :
           CalculateCompetitionScore(competition)
               = IF competition = "Low" THEN 90
                 ELSE IF competition = "Medium" THEN 60
                 ELSE IF competition = "High" THEN 30
                 ELSE 50
    /\ \A i \in 1..Len(df) :
           "competition_score" \in DOMAIN df[i] =>
               LET competition == df[i].estimated_competition
               IN  /\ competition = "Low" => df[i].competition_score = 90
                   /\ competition = "Medium" => df[i].competition_score = 60
                   /\ competition = "High" => df[i].competition_score = 30
                   /\ competition \notin {"Low", "Medium", "High"}
                          => df[i].competition_score = 50
    /\ (\E i \in 1..Len(raw) :
            raw[i].estimated_competition \notin {"Low", "Medium", "High"})
           => /\ error = "none"
              /\ pc = "done" =>
                     \A i \in 1..Len(df) :
                         {"composite_score", "performance_rank", "priority"}
                             \subseteq DOMAIN df[i]

\* process_keywords finished on a table holding a record of unknown
\* competition, scored 5 and ranked
C25_Witness ==
    /\ pc = "done"
    /\ error = "none"
    /\ \E i \in 1..Len(df) :
           /\ df[i].estimated_competition = "Unknown"
           /\ df[i].competition_score = 50
           /\ df[i].performance_rank >= 1
           /\ df[i].priority \in {"High", "Medium", "Low"}

\* C5: for every scored keyword table, an empty one included,
\* build_pmax_campaigns returns exactly 4 theme rows with budget shares 0.35,
\* 0.30, 0.20 and 0.15, each monthly_budget (hundredths of a unit) is its
\* share times pmax_ads, and the 4 monthly budgets sum to pmax_ads.
C5_PmaxFourThemesForEveryTable ==
    pmax.called =>
        /\ pmax.error = "none"
        /\ Len(pmax.rows) = 4
        /\ [k \in 1..Len(pmax.rows) |-> pmax.rows[k].budget_allocation]
               = <<35, 30, 20, 15>>
        /\ \A k \in 1..Len(pmax.rows) :
               pmax.rows[k].monthly_budget
                   = pmax.rows[k].budget_allocation * config.budgets.pmax_ads
        /\ SumSeq([k \in 1..Len(pmax.rows) |-> pmax.rows[k].monthly_budget])
               = 100 * config.budgets.pmax_ads

\* the keyword matches the professional filter of _get_theme_keywords
MatchesProfessional(kw) ==
    ContainsAny(kw, {"professional", "busy", "office", "work"})

\* the keyword matches the seasonal filter of _get_theme_keywords
MatchesSeasonal(kw) ==
    \/ ContainsPhrase(kw, "new", "year")
    \/ ContainsAny(kw, {"summer", "winter", "resolution"})

\* the target_keywords lists of a pmax table are within their limits, and
\* the professional and seasonal lists are the fallback lists when nothing in
\* the scored table matches
TargetKeywordsWithinLimits(rows, t) ==
    /\ Len(rows) = 4
    /\ Len(rows[1].target_keywords) <= 8
    /\ Len(rows[2].target_keywords) <= 6
    /\ Len(rows[3].target_keywords) \in 1..5
    /\ Len(rows[4].target_keywords) \in 1..5
    /\ (\A i \in 1..Len(t) : ~MatchesProfessional(t[i].keyword))
           => rows[3].target_keywords
                  = << <<"protein", "for", "professionals">>,
                       <<"busy", "lifestyle", "nutrition">>,
                       <<"office", "wellness">> >>
    /\ (\A i \in 1..Len(t) : ~MatchesSeasonal(t[i].keyword))
           => rows[4].target_keywords
                  = << <<"fitness", "goals">>, <<"health", "resolutions">>,
                       <<"seasonal", "nutrition">> >>

\* C26: for every scored keyword table, each PMax theme's target_keywords has
\* at most 8 entries (product 8, recovery 6, professional and seasonal 5), and
\* the professional and seasonal lists are never empty: with no matching
\* keyword they are the 3-item fallback lists and no error is raised.
C26_TargetKeywordsBoundedWithFallback ==
    pmax.called =>
        /\ pmax.error = "none"
        /\ TargetKeywordsWithinLimits(pmax.rows, df)

\* the same on the tables for which build_pmax_campaigns returns
TargetKeywordsBoundedWhenReturned ==
    (pmax.called /\ pmax.error = "none")
        => TargetKeywordsWithinLimits(pmax.rows, df)

\* C6: when every raw record is removed by the volume, CPC or relevance
\* filter (or the raw table is empty), process_keywords does not raise and
\* returns an empty scored table that still has the score, intent, theme,
\* composite, rank and priority fields.
C6_EmptyAfterFilteringIsValid ==
    (\A i \in 1..Len(raw) : RemovedByAFilter(raw[i])) =>
        /\ pc # "raised"
        /\ error = "none"
        /\ pc \notin {"start"} => df = <<>>
        /\ pc = "done" => ScoredFields \subseteq DOMAIN columns

\* process_keywords returned for a raw table of several records, one removed
\* by each of the three filters
C6_Witness ==
    /\ pc = "done"
    /\ df = <<>>
    /\ \E i, j, k \in 1..Len(raw) :
           /\ raw[i].estimated_volume
                  < config.campaign_constraints.min_search_volume
           /\ raw[j].estimated_cpc_high > config.campaign_constraints.max_cpc
           /\ IsIrrelevant(raw[k].keyword)

\* C7: build_search_campaigns and build_shopping_campaigns, called with an
\* empty scored table, each complete without raising and return an empty
\* table (so that main goes on to the export stage).
C7_EmptyTableIsNotFatalForBuilders ==
    (pc = "done" /\ df = <<>>) =>
        /\ search.called => (search.error = "none" /\ search.rows = <<>>)
        /\ shopping.called =>
               (shopping.error = "none" /\ shopping.rows = <<>>)

\* C10: filtering is idempotent: _apply_filters applied to the output of
\* _apply_filters, with the same min_search_volume and max_cpc, returns that
\* output, same records in the same order.
C10_ApplyFiltersIdempotent ==
    pc = "refiltered" => df = df_filtered

\* _apply_filters was applied again to a non-empty output from which the
\* first call had removed records
C10_Witness ==
    /\ pc = "refiltered"
    /\ passes >= 1
    /\ df_filtered # <<>>
    /\ Len(df_filtered) < Len(raw)

-----------------------------------------------------------------------------
(* Specification of the budget split: the three builders of one             *)
(* CampaignBuilder called, in any order, on the table process_keywords      *)
(* returned, for every budget up to MaxBudget and every set of themes and   *)
(* of product categories.                                                   *)

\* one raw record per theme; between them they match all product categories
BudgetRecords ==
    << Rec(<<"nutrimax", "protein">>, "brand_variant", 800, "Low", 26, 70),
       Rec(<<"buy", "vegan", "protein">>, "commercial_variant", 6000, "High",
           80, 200),
       Rec(<<"rivalfit", "alternative">>, "competitor_variant", 1500,
           "Medium", 50, 120),
       Rec(<<"muscle", "recovery", "mumbai">>, "location_variant", 700,
           "Medium", 50, 126),
       Rec(<<"how", "to", "use", "whey", "protein">>, "longtail_variant",
           1200, "Low", 20, 60),
       Rec(<<"women", "health", "drink">>, "seed_direct", 2500, "Medium",
           56, 130) >>

\* the records at the chosen positions, in table order
Pick(records, chosen) ==
    LET Chosen(r) == \E i \in chosen : records[i] = r
    IN  SelectSeq(records, Chosen)

BudgetTables == {Pick(BudgetRecords, chosen) : chosen \in SUBSET (1..6)}

BudgetConfigs ==
    {Config(500, 300, Budgets(b, MaxBudget - b, b)) : b \in 0..MaxBudget}

InitBudget ==
    /\ config \in BudgetConfigs
    /\ raw \in BudgetTables
    /\ pc = "done"
    /\ df = ProcessKeywords(config, raw)
    /\ columns = ProcessKeywordsColumns(Len(df))
    /\ df_filtered = ApplyFilters(config, raw)
    /\ passes = 0
    /\ error = "none"
    /\ match_type_strategy = InitialMatchTypeStrategy
    /\ search = NotCalled
    /\ pmax = NotCalled
    /\ shopping = NotCalled
    /\ MainIdle
    /\ GeneratorIdle

NextBudget ==
    \/ BuildSearch
    \/ BuildPmax
    \/ BuildShopping

SpecBudget == InitBudget /\ [][NextBudget]_vars

\* the theme_monthly_budget of each distinct ad group of the search table
AdGroupBudgets ==
    LET rows == 1..Len(search.rows)
        groups == {search.rows[i].ad_group : i \in rows}
    IN  [g \in groups |->
            LET i == CHOOSE k \in rows : search.rows[k].ad_group = g
            IN  search.rows[i].theme_monthly_budget]

Abs(x) == IF x < 0 THEN -x ELSE x

C4_ShoppingBudgetsSumWithinTwo ==
    (shopping.called /\ Len(shopping.rows) = 4) =>
        /\ \A k \in 1..4 :
               2 * Abs(46 * shopping.rows[k].monthly_budget
                       - ProductCategories[k].budget_weight
                             * config.budgets.shopping_ads) <= 46
        /\ Abs(SumSeq([k \in 1..4 |-> shopping.rows[k].monthly_budget])
               - config.budgets.shopping_ads) <= 2

\* all four categories present and the budgets not summing to shopping_ads
C4_Witness ==
    /\ shopping.called
    /\ Len(shopping.rows) = 4
    /\ SumSeq([k \in 1..4 |-> shopping.rows[k].monthly_budget])
           # config.budgets.shopping_ads

-----------------------------------------------------------------------------
(* Specification of main: the configuration file's keys, load_config,       *)
(* validate_config and the pipeline stages in program order.  A key path is *)
(* the tuple of dictionary keys leading to a value: <<"brand", "name">> is  *)
(* config['brand']['name'].  The tables handed from stage to stage are kept *)
(* only as the kind of scored table process_keywords returned.              *)

Leaves(section, names) == {<<section, n>> : n \in names}

BudgetKeys ==
    Leaves("budgets", {"search_ads", "shopping_ads", "pmax_ads",
                       "total_monthly"})

\* constraint_keys of validate_config
ValidatedConstraintKeys ==
    Leaves("campaign_constraints",
           {"min_search_volume", "target_conversion_rate", "target_cpa",
            "max_cpc"})

\* the keys of a complete configuration file
FullConfigKeys ==
    { <<"brand">>, <<"competitor">>, <<"budgets">>,
      <<"campaign_constraints">>, <<"seed_keywords">>,
      <<"service_locations">>, <<"output_settings">> }
    \cup Leaves("brand", {"name"})
    \cup Leaves("competitor", {"name"})
    \cup BudgetKeys
    \cup ValidatedConstraintKeys
    \cup Leaves("campaign_constraints",
                {"min_keyword_length", "max_keyword_length"})
    \cup Leaves("output_settings", {"directory", "file_formats"})

\* a file that leaves out the keys in dropped; leaving out a section leaves
\* out the keys below it
FileWithout(dropped) ==
    {k \in FullConfigKeys : k \notin dropped /\ <<k[1]>> \notin dropped}

\* self.required_sections of ConfigLoader
RequiredSections ==
    {<<"brand">>, <<"competitor">>, <<"budgets">>,
     <<"campaign_constraints">>, <<"seed_keywords">>}

\* the keys _set_defaults adds to a dictionary that lacks them
\* (execution_settings and data_sources, which no stage reads, left out)
SetDefaults(keys) ==
    keys \cup {<<"output_settings">>, <<"output_settings", "directory">>,
               <<"output_settings", "file_formats">>,
               <<"service_locations">>}

\* required_keys of validate_config
ValidatedSections ==
    {<<"brand">>, <<"competitor">>, <<"budgets">>, <<"campaign_constraints">>}

\* validate_config returns normally (it raises ValueError otherwise)
ValidateConfigAccepts(keys, bad) ==
    /\ ValidatedSections \subseteq keys
    /\ \A k \in BudgetKeys : k \in keys /\ k \notin bad
    /\ \A k \in ValidatedConstraintKeys : k \in keys /\ k \notin bad

InitMain ==
    /\ \E dropped \in SUBSET FullConfigKeys :
           /\ Cardinality(dropped) <= MaxMissing
           /\ yaml_keys = FileWithout(dropped)
    /\ present = yaml_keys
    /\ \E bad \in SUBSET (BudgetKeys \cup ValidatedConstraintKeys) :
           /\ Cardinality(bad) <= MaxInvalid
           /\ bad \subseteq yaml_keys
           /\ invalid = bad
    /\ stage = "load_config"
    /\ failure = NoFailure
    /\ scored = "none"
    /\ config = Config(500, 300, Budgets(5000, 3000, 2000))
    /\ raw = <<>>
    /\ pc = "start"
    /\ df = <<>>
    /\ columns = RawColumns
    /\ df_filtered = <<>>
    /\ passes = 0
    /\ error = "none"
    /\ match_type_strategy = InitialMatchTypeStrategy
    /\ search = NotCalled
    /\ pmax = NotCalled
    /\ shopping = NotCalled
    /\ GeneratorIdle

RaiseAndCarryOn(exception, missing) ==
    /\ failure' = [exception |-> exception, missing |-> missing,
                   stage |-> stage]
    /\ stage' = "export_all_deliverables"

\* the except clauses of main: the exception is reported and main exits 1;
\* missing says what a KeyError could not find
Raise(exception, missing) ==
    /\ failure' = [exception |-> exception, missing |-> missing,
                   stage |-> stage]
    /\ stage' = "exit"

\* a statement of main that only reads the given keys: a missing key raises
\* KeyError, otherwise control passes to the next statement
ReadAndGo(reads, next) ==
    IF reads \subseteq present
    THEN stage' = next /\ UNCHANGED failure
    ELSE Raise("KeyError", "config key")

MainFrame == UNCHANGED <<yaml_keys, invalid, PipelineVars, GeneratorVars>>

\* config = config_loader.load_config(args.config)
LoadConfig ==
    /\ stage = "load_config"
    /\ IF RequiredSections \subseteq present
       THEN /\ present' = SetDefaults(present)
            /\ stage' = "validate_config"
            /\ UNCHANGED failure
       ELSE Raise("ValueError", "nothing") /\ UNCHANGED present
    /\ UNCHANGED scored
    /\ MainFrame

\* validate_config(config)
ValidateConfig ==
    /\ stage = "validate_config"
    /\ IF ValidateConfigAccepts(present, invalid)
       THEN stage' = "ensure_directory" /\ UNCHANGED failure
       ELSE Raise("ValueError", "nothing")
    /\ UNCHANGED <<present, scored>>
    /\ MainFrame

\* output_dir = config['output_settings']['directory'];
\* ensure_directory(output_dir)
EnsureDirectory ==
    /\ stage = "ensure_directory"
    /\ ReadAndGo({<<"output_settings", "directory">>}, "KeywordGenerator")
    /\ UNCHANGED <<present, scored>>
    /\ MainFrame

\* keyword_gen = KeywordGenerator(config)
ConstructKeywordGenerator ==
    /\ stage = "KeywordGenerator"
    /\ ReadAndGo({<<"brand", "name">>, <<"competitor", "name">>,
                  <<"service_locations">>, <<"seed_keywords">>},
                 "generate_keywords")
    /\ UNCHANGED <<present, scored>>
    /\ MainFrame

\* raw_keywords = keyword_gen.generate_keywords()
GenerateKeywordsStage ==
    /\ stage = "generate_keywords"
    /\ ReadAndGo({<<"campaign_constraints", "min_search_volume">>,
                  <<"campaign_constraints", "min_keyword_length">>,
                  <<"campaign_constraints", "max_keyword_length">>},
                 "DataProcessor")
    /\ UNCHANGED <<present, scored>>
    /\ MainFrame

\* processor = DataProcessor(config)
ConstructDataProcessor ==
    /\ stage = "DataProcessor"
    /\ ReadAndGo({<<"brand", "name">>, <<"competitor", "name">>,
                  <<"campaign_constraints">>}, "process_keywords")
    /\ UNCHANGED <<present, scored>>
    /\ MainFrame

\* processed_keywords = processor.process_keywords(raw_keywords): the table
\* has rows matching a product category, rows matching none, or no rows
ProcessKeywordsStage ==
    /\ stage = "process_keywords"
    /\ ReadAndGo({<<"campaign_constraints", "min_search_volume">>,
                  <<"campaign_constraints", "max_cpc">>,
                  <<"service_locations">>}, "CampaignBuilder")
    /\ IF stage' = "exit"
       THEN UNCHANGED scored
       ELSE scored' \in {"rows", "no_category_match", "empty"}
    /\ UNCHANGED present
    /\ MainFrame

\* campaign_builder = CampaignBuilder(config)
ConstructCampaignBuilder ==
    /\ stage = "CampaignBuilder"
    /\ ReadAndGo({<<"budgets">>, <<"campaign_constraints">>},
                 "build_search_campaigns")
    /\ UNCHANGED <<present, scored>>
    /\ MainFrame

\* search_adgroups = campaign_builder.build_search_campaigns(...); on a
\* table without rows df['ad_group'] raises
BuildSearchStage ==
    /\ stage = "build_search_campaigns"
    /\ IF scored = "empty"
       THEN Raise("KeyError", "table column")
       ELSE ReadAndGo({<<"campaign_constraints", "max_cpc">>,
                       <<"campaign_constraints", "target_conversion_rate">>,
                       <<"budgets", "search_ads">>}, "build_pmax_campaigns")
    /\ UNCHANGED <<present, scored>>
    /\ MainFrame

\* pmax_themes = campaign_builder.build_pmax_campaigns(...); on a table
\* without rows nlargest raises
BuildPmaxStage ==
    /\ stage = "build_pmax_campaigns"
    /\ IF scored = "empty"
       THEN Raise("TypeError", "nothing")
       ELSE ReadAndGo({<<"budgets", "pmax_ads">>,
                       <<"campaign_constraints", "target_conversion_rate">>,
                       <<"campaign_constraints", "target_cpa">>},
                      "build_shopping_campaigns")
    /\ UNCHANGED <<present, scored>>
    /\ MainFrame

\* shopping_bids = campaign_builder.build_shopping_campaigns(...); when no
\* category has a keyword shopping_df['budget_allocation'] raises
BuildShoppingStage ==
    /\ stage = "build_shopping_campaigns"
    /\ IF scored # "rows"
       THEN Raise("KeyError", "table column")
       ELSE ReadAndGo({<<"budgets", "shopping_ads">>,
                       <<"campaign_constraints", "target_conversion_rate">>,
                       <<"campaign_constraints", "target_cpa">>},
                      "ExportManager")
    /\ UNCHANGED <<present, scored>>
    /\ MainFrame

\* export_manager = ExportManager(config)
ConstructExportManager ==
    /\ stage = "ExportManager"
    /\ ReadAndGo({<<"output_settings", "directory">>,
                  <<"output_settings", "file_formats">>},
                 "export_all_deliverables")
    /\ UNCHANGED <<present, scored>>
    /\ MainFrame

\* export_files = export_manager.export_all_deliverables(...); main then
\* prints the summary and returns
ExportAllDeliverables ==
    /\ stage = "export_all_deliverables"
    /\ ReadAndGo({<<"brand", "name">>, <<"competitor", "name">>,
                  <<"service_locations">>} \cup BudgetKeys, "exit")
    /\ UNCHANGED <<present, scored>>
    /\ MainFrame

NextMain ==
    \/ LoadConfig
    \/ ValidateConfig
    \/ EnsureDirectory
    \/ ConstructKeywordGenerator
    \/ GenerateKeywordsStage
    \/ ConstructDataProcessor
    \/ ProcessKeywordsStage
    \/ ConstructCampaignBuilder
    \/ BuildSearchStage
    \/ BuildPmaxStage
    \/ BuildShoppingStage
    \/ ConstructExportManager
    \/ ExportAllDeliverables

SpecMain == InitMain /\ [][NextMain]_vars

\* the configuration keys the core reads
CoreKeys ==
    Leaves("brand", {"name"}) \cup Leaves("competitor", {"name"})
    \cup {<<"seed_keywords">>, <<"service_locations">>}
    \cup BudgetKeys
    \cup Leaves("campaign_constraints",
                {"min_search_volume", "max_cpc", "min_keyword_length",
                 "max_keyword_length", "target_conversion_rate",
                 "target_cpa"})

\* C8: for every configuration key the core reads, a configuration file
\* missing that key is rejected by load_config / validate_config with a
\* ValueError before KeywordGenerator, DataProcessor or CampaignBuilder is
\* constructed or run; no missing-key failure ever occurs inside a pipeline
\* stage.
C8_MissingKeyRejectedBeforePipeline ==
    /\ (\E k \in CoreKeys : k \notin yaml_keys) =>
           \/ stage \in {"load_config", "validate_config"}
           \/ /\ stage = "exit"
              /\ failure.exception = "ValueError"
              /\ failure.stage \in {"load_config", "validate_config"}
    /\ failure.missing # "config key"

\* the statements of main in the order they are written
StageOrder ==
    <<"load_config", "validate_config", "ensure_directory",
      "KeywordGenerator", "generate_keywords", "DataProcessor",
      "process_keywords", "CampaignBuilder", "build_search_campaigns",
      "build_pmax_campaigns", "build_shopping_campaigns", "ExportManager",
      "export_all_deliverables", "exit">>

Position(s) == CHOOSE k \in 1..Len(StageOrder) : StageOrder[k] = s

\* the status main exits with
ExitStatus == IF failure.exception = "none" THEN 0 ELSE 1

\* C30: the stages of main run strictly in the order load and validate the
\* configuration, generate keywords, process keywords, build search, build
\* PMax, build shopping, export, each starting when the one before it has
\* returned; export_all_deliverables is invoked only if every earlier stage
\* completed without an exception, and an exception in any stage ends the
\* run with exit status 1 without a later stage being invoked.
C30_StagesInOrderAndExceptionsEndTheRun ==
    /\ [](/\ failure.exception # "none" => stage = "exit"
          /\ stage = "export_all_deliverables" => ExitStatus = 0
          /\ (stage = "exit" /\ ExitStatus = 0)
                 => failure.stage = "none")
    /\ [][\/ /\ failure' = NoFailure
              /\ Position(stage') = Position(stage) + 1
           \/ /\ failure'.exception # "none"
              /\ failure'.stage = stage
              /\ stage' = "exit"]_vars

\* build_shopping_campaigns raised after the two builders before it had
\* returned, and main exited with status 1 without exporting
C30_Witness ==
    /\ stage = "exit"
    /\ ExitStatus = 1
    /\ failure.stage = "build_shopping_campaigns"
    /\ scored = "no_category_match"

-----------------------------------------------------------------------------
(* KeywordGenerator.  numpy's process-wide generator is kept as a state of  *)
(* a full-period generator over 0..15: np.random.seed(n) sets the state     *)
(* from n alone, and every draw moves the state on and returns a value      *)
(* computed from the new state.  Multipliers drawn by uniform() are in      *)
(* thousandths.                                                             *)

\* np.random.seed(42)
RandomSeed == 42

RngStates == 0..15

\* the state np.random.seed(seed) leaves
SeedState(seed) == seed % 16

\* the state after one draw
NextRng(s) == (5 * s + 3) % 16

RECURSIVE Iterate(_, _)
Iterate(s, n) == IF n = 0 THEN s ELSE Iterate(NextRng(s), n - 1)

\* the state after n draws; the states recur every 16 draws
RngAfter(s, n) == Iterate(s, n % 16)

\* np.random.randint(low, high) returned from state s: low <= value < high
Randint(s, low, high) == low + (s * (high - low)) \div 16

\* np.random.uniform(low, high) returned from state s
Uniform(s, low, high) == low + (s * (high - low)) \div 16

\* np.random.choice(['Low', 'Medium', 'High'], p=[0.3, 0.5, 0.2])
Choice(s) ==
    IF 10 * s < 3 * 16 THEN "Low"
    ELSE IF 10 * s < 8 * 16 THEN "Medium"
    ELSE "High"

RECURSIVE Flatten(_)
\* list.extend over a list of lists
Flatten(ss) == IF ss = <<>> THEN <<>> ELSE Head(ss) \o Flatten(Tail(ss))

RECURSIVE Format(_, _)
\* pattern.format(...): every placeholder replaced by the words bound to it
Format(pattern, binding) ==
    IF pattern = <<>> THEN <<>>
    ELSE (IF Head(pattern) \in DOMAIN binding
          THEN binding[Head(pattern)]
          ELSE <<Head(pattern)>>) \o Format(Tail(pattern), binding)

location_patterns ==
    << <<"{keyword}", "{location}">>,
       <<"{keyword}", "in", "{location}">>,
       <<"best", "{keyword}", "{location}">>,
       <<"{keyword}", "near", "{location}">>,
       <<"{location}", "{keyword}">>,
       <<"{keyword}", "delivery", "{location}">> >>

commercial_patterns ==
    << <<"buy", "{keyword}">>, <<"{keyword}", "price">>,
       <<"{keyword}", "cost">>, <<"{keyword}", "online">>,
       <<"best", "{keyword}">>, <<"{keyword}", "review">>,
       <<"{keyword}", "reviews">>, <<"cheap", "{keyword}">>,
       <<"{keyword}", "discount">>, <<"{keyword}", "deals">>,
       <<"{keyword}", "offers">>, <<"order", "{keyword}">>,
       <<"{keyword}", "purchase">>,
       <<"where", "to", "buy", "{keyword}">>,
       <<"{keyword}", "for", "sale">> >>

brand_patterns ==
    << <<"{brand}", "{keyword}">>, <<"{keyword}", "{brand}">>,
       <<"{brand}">>, <<"{brand}", "official">>, <<"{brand}", "website">>,
       <<"{brand}", "store">>, <<"{brand}", "products">>,
       <<"{brand}", "reviews">>, <<"{brand}", "price">>,
       <<"{brand}", "contact">>, <<"{brand}", "support">> >>

competitor_patterns ==
    << <<"{competitor}", "alternative">>,
       <<"alternative", "to", "{competitor}">>,
       <<"{competitor}", "vs", "{brand}">>,
       <<"{brand}", "vs", "{competitor}">>,
       <<"{competitor}", "competitor">>,
       <<"better", "than", "{competitor}">>,
       <<"{competitor}", "replacement">>,
       <<"like", "{competitor}", "but", "better">> >>

longtail_patterns ==
    << <<"how", "to", "use", "{keyword}">>, <<"what", "is", "{keyword}">>,
       <<"{keyword}", "benefits">>, <<"{keyword}", "side", "effects">>,
       <<"{keyword}", "dosage">>,
       <<"best", "time", "to", "take", "{keyword}">>,
       <<"{keyword}", "for", "beginners">>,
       <<"{keyword}", "vs", "protein", "powder">>,
       <<"natural", "{keyword}">>, <<"organic", "{keyword}">>,
       <<"{keyword}", "guide">>, <<"{keyword}", "tips">>,
       <<"why", "use", "{keyword}">>, <<"{keyword}", "ingredients">>,
       <<"{keyword}", "nutrition", "facts">> >>

\* one dictionary of the keyword list
Entry(kw, source) == [keyword |-> kw, source |-> source]

\* self.seed_keywords of __init__: each seed lower-cased and stripped
seed_keywords(cfg) ==
    [i \in 1..Len(cfg.seed_keywords) |-> Strip(Lower(cfg.seed_keywords[i]))]

\* _generate_from_seeds
GenerateFromSeeds(cfg) ==
    [i \in 1..Len(seed_keywords(cfg)) |->
        Entry(seed_keywords(cfg)[i], "seed_direct")]

\* _generate_location_variants: for seed, for location, for pattern
GenerateLocationVariants(cfg) ==
    Flatten([i \in 1..Len(seed_keywords(cfg)) |->
        Flatten([j \in 1..Len(cfg.service_locations) |->
            [k \in 1..Len(location_patterns) |->
                Entry(Format(location_patterns[k],
                             [x \in {"{keyword}", "{location}"} |->
                                 IF x = "{keyword}" THEN seed_keywords(cfg)[i]
                                 ELSE <<cfg.service_locations[j]>>]),
                      "location_variant")]])])

\* _generate_commercial_variants: for seed, for pattern
GenerateCommercialVariants(cfg) ==
    Flatten([i \in 1..Len(seed_keywords(cfg)) |->
        [k \in 1..Len(commercial_patterns) |->
            Entry(Format(commercial_patterns[k],
                         [x \in {"{keyword}"} |-> seed_keywords(cfg)[i]]),
                  "commercial_variant")]])

\* _generate_brand_variants: for pattern, and for seed when the pattern
\* holds {keyword}
GenerateBrandVariants(cfg) ==
    Flatten([k \in 1..Len(brand_patterns) |->
        IF "{keyword}" \in Range(brand_patterns[k])
        THEN [i \in 1..Len(seed_keywords(cfg)) |->
                 Entry(Format(brand_patterns[k],
                              [x \in {"{keyword}", "{brand}"} |->
                                  IF x = "{keyword}"
                                  THEN seed_keywords(cfg)[i]
                                  ELSE <<brand_name(cfg)>>]),
                       "brand_variant")]
        ELSE <<Entry(Format(brand_patterns[k],
                            [x \in {"{brand}"} |-> <<brand_name(cfg)>>]),
                     "brand_variant")>>])

\* _generate_competitor_variants
GenerateCompetitorVariants(cfg) ==
    [k \in 1..Len(competitor_patterns) |->
        Entry(Format(competitor_patterns[k],
                     [x \in {"{competitor}", "{brand}"} |->
                         IF x = "{competitor}" THEN <<competitor_name(cfg)>>
                         ELSE <<brand_name(cfg)>>]),
              "competitor_variant")]

\* _generate_long_tail_variants: for seed, for pattern
GenerateLongTailVariants(cfg) ==
    Flatten([i \in 1..Len(seed_keywords(cfg)) |->
        [k \in 1..Len(longtail_patterns) |->
            Entry(Format(longtail_patterns[k],
                         [x \in {"{keyword}"} |-> seed_keywords(cfg)[i]]),
                  "longtail_variant")]])

\* all_keywords of generate_keywords
AllKeywords(cfg) ==
    GenerateFromSeeds(cfg) \o GenerateLocationVariants(cfg)
    \o GenerateCommercialVariants(cfg) \o GenerateBrandVariants(cfg)
    \o GenerateCompetitorVariants(cfg) \o GenerateLongTailVariants(cfg)

\* the brand, price and best test shared by the volume and competition
\* estimates
HasBuyPriceBest(kw) == ContainsAny(kw, {"buy", "price", "best"})

\* get_volume_estimate, with the states of its two draws
GetVolumeEstimate(cfg, entry, s_base, s_multiplier) ==
    LET base_volume == Randint(s_base, 500, 5000)
        \* the source adjustment, in tenths
        adjustment ==
            CASE entry.source = "seed_direct" -> 15
              [] entry.source = "brand_variant" ->
                     IF Contains(entry.keyword, brand_name(cfg)) THEN 3
                     ELSE 10
              [] entry.source = "location_variant" -> 8
              [] entry.source = "commercial_variant" ->
                     IF HasBuyPriceBest(entry.keyword) THEN 12 ELSE 10
              [] entry.source = "longtail_variant" -> 6
              [] OTHER -> 10
        volume_multiplier == Uniform(s_multiplier, 700, 1300)
        final_volume == (base_volume * adjustment * volume_multiplier)
                            \div 10000
    IN  Max(final_volume, cfg.campaign_constraints.min_search_volume)

\* get_competition_estimate draws from the generator for this entry
CompetitionIsDrawn(cfg, entry) ==
    ~ \/ /\ entry.source = "brand_variant"
         /\ Contains(entry.keyword, brand_name(cfg))
      \/ entry.source = "competitor_variant"
      \/ /\ entry.source = "commercial_variant"
         /\ HasBuyPriceBest(entry.keyword)

\* get_competition_estimate, with the state of its draw if it makes one
GetCompetitionEstimate(cfg, entry, s) ==
    IF entry.source = "brand_variant"
       /\ Contains(entry.keyword, brand_name(cfg))
    THEN "Low"
    ELSE IF entry.source = "competitor_variant" THEN "Medium"
    ELSE IF entry.source = "commercial_variant"
            /\ HasBuyPriceBest(entry.keyword)
    THEN "High"
    ELSE Choice(s)

\* keyword.str.split().str.len(): the pieces that are words
WordCount(kw) == Len(SelectSeq(kw, LAMBDA w : w # ""))

GetCpcEstimateWideLowMultiplier(competition, keyword_length, s_low, s_high) ==
    LET base_cpc == CASE competition = "Low" -> <<25, 75>>
                      [] competition = "Medium" -> <<50, 125>>
                      [] competition = "High" -> <<80, 200>>
                      [] OTHER -> <<50, 100>>
        adjustment == IF keyword_length > 4 THEN 8 ELSE 10
    IN  << RoundHalfEven(base_cpc[1] * adjustment * Uniform(s_low, 800, 4200),
                         10000),
           RoundHalfEven(base_cpc[2] * adjustment * Uniform(s_high, 900, 1100),
                         10000) >>

\* get_cpc_estimate: <<cpc_low, cpc_high>> in hundredths, with the states
\* of its two draws
GetCpcEstimate(competition, keyword_length, s_low, s_high) ==
    LET base_cpc == CASE competition = "Low" -> <<25, 75>>
                      [] competition = "Medium" -> <<50, 125>>
                      [] competition = "High" -> <<80, 200>>
                      [] OTHER -> <<50, 100>>
        \* the length adjustment, in tenths
        adjustment == IF keyword_length > 4 THEN 8 ELSE 10
    IN  << RoundHalfEven(base_cpc[1] * adjustment * Uniform(s_low, 800, 1200),
                         10000),
           RoundHalfEven(base_cpc[2] * adjustment * Uniform(s_high, 900, 1100),
                         10000) >>

\* number of draws get_competition_estimate makes for the first n entries
CompetitionDraws(cfg, entries, n) ==
    Cardinality({k \in 1..n : CompetitionIsDrawn(cfg, entries[k])})

\* _add_simulated_metrics from generator state s: the three df.apply passes
\* one after the other, each visiting the rows in order, and the state the
\* generator is left in
AddSimulatedMetrics(cfg, entries, s) ==
    LET n == Len(entries)
        after_volume == RngAfter(s, 2 * n)
        after_competition ==
            RngAfter(after_volume, CompetitionDraws(cfg, entries, n))
        Competition(k) ==
            GetCompetitionEstimate(cfg, entries[k],
                RngAfter(after_volume, CompetitionDraws(cfg, entries, k)))
        Cpc(k) ==
            GetCpcEstimate(Competition(k), WordCount(entries[k].keyword),
                           RngAfter(after_competition, 2 * k - 1),
                           RngAfter(after_competition, 2 * k))
    IN  [table |->
            [k \in 1..n |->
                Rec(entries[k].keyword, entries[k].source,
                    GetVolumeEstimate(cfg, entries[k],
                                      RngAfter(s, 2 * k - 1),
                                      RngAfter(s, 2 * k)),
                    Competition(k), Cpc(k)[1], Cpc(k)[2])],
         rng |-> RngAfter(after_competition, 2 * n)]

\* number of characters of the words the keywords are made of
WordsOfLength ==
    [n \in 2..11 |->
        CASE n = 2 -> {"in", "to", "is", "vs"}
          [] n = 3 -> {"buy", "for", "how", "use", "why", "but"}
          [] n = 4 -> {"best", "near", "cost", "sale", "what", "side",
                       "time", "take", "tips", "than", "like"}
          [] n = 5 -> {"price", "cheap", "deals", "order", "where", "store",
                       "guide", "facts", "delhi"}
          [] n = 6 -> {"online", "review", "offers", "dosage", "powder",
                       "better", "mumbai"}
          [] n = 7 -> {"reviews", "website", "contact", "support", "effects",
                       "natural", "organic", "protein"}
          [] n = 8 -> {"delivery", "discount", "purchase", "official",
                       "products", "benefits", "nutrimax", "rivalfit"}
          [] n = 9 -> {"beginners", "nutrition", "nutri&max"}
          [] n = 10 -> {"competitor"}
          [] n = 11 -> {"alternative", "replacement", "ingredients"}]

WordLength(w) ==
    IF w = "" THEN 0
    ELSE CHOOSE n \in DOMAIN WordsOfLength : w \in WordsOfLength[n]

\* keyword.str.len(): the words and the single spaces between them
KeywordLength(kw) ==
    SumSeq([i \in 1..Len(kw) |-> WordLength(kw[i])]) + Len(kw) - 1

\* words holding a character other than letters, digits and hyphens
WordsWithSpecialCharacters == {"nutri&max"}

\* str.match(r'^[a-zA-Z0-9\s\-]+$')
MatchesAllowedCharacters(kw) ==
    \A i \in 1..Len(kw) : kw[i] \notin WordsWithSpecialCharacters

\* drop_duplicates(subset=['keyword'], keep='first')
DropDuplicates(t) ==
    LET first == {i \in 1..Len(t) :
                     \A j \in 1..(i - 1) : t[j].keyword # t[i].keyword}
        \* the k-th smallest index of first
        Nth(k) == CHOOSE i \in first :
                      Cardinality({j \in first : j < i}) = k - 1
    IN  [k \in 1..Cardinality(first) |-> t[Nth(k)]]

\* _clean_and_deduplicate: strip and lower the keyword column, drop the
\* duplicates, then the length and the character filters
CleanAndDeduplicate(cfg, t) ==
    LET cleaned == [k \in 1..Len(t) |->
                       [t[k] EXCEPT !.keyword = Lower(Strip(t[k].keyword))]]
        LengthOk(r) ==
            /\ KeywordLength(r.keyword)
                   >= cfg.campaign_constraints.min_keyword_length
            /\ KeywordLength(r.keyword)
                   <= cfg.campaign_constraints.max_keyword_length
        CharactersOk(r) == MatchesAllowedCharacters(r.keyword)
    IN  SelectSeq(SelectSeq(DropDuplicates(cleaned), LengthOk), CharactersOk)

\* generate_keywords called while the process-wide generator is in state s:
\* the table returned and the state the generator is left in
GenerateKeywords(cfg, s) ==
    LET metrics == AddSimulatedMetrics(cfg, AllKeywords(cfg), s)
    IN  [table |-> CleanAndDeduplicate(cfg, metrics.table),
         rng |-> metrics.rng]

-----------------------------------------------------------------------------
(* Specification of keyword synthesis in one process: generators are        *)
(* constructed, generate_keywords is called on any of them, and other code  *)
(* draws from the process-wide random generator, in any order.              *)

GeneratorConfigs ==
    { Config(500, 300, Budgets(5000, 3000, 2000)),
      Config(1000, 300, Budgets(5000, 3000, 2000)),
      [Config(500, 300, Budgets(5000, 3000, 2000))
          EXCEPT !.brand.name = "nutri&max"],
      \* the seeds "protein powder" and "protein  powder"
      [Config(500, 300, Budgets(5000, 3000, 2000))
          EXCEPT !.seed_keywords = << <<"protein", "powder">>,
                                      <<"protein", "", "powder">> >>] }

InitGenerator ==
    /\ rng \in RngStates
    /\ generators = <<>>
    /\ tables = <<>>
    /\ other_draws = 0
    /\ config = Config(500, 300, Budgets(5000, 3000, 2000))
    /\ raw = <<>>
    /\ pc = "start"
    /\ df = <<>>
    /\ columns = RawColumns
    /\ df_filtered = <<>>
    /\ passes = 0
    /\ error = "none"
    /\ match_type_strategy = InitialMatchTypeStrategy
    /\ search = NotCalled
    /\ pmax = NotCalled
    /\ shopping = NotCalled
    /\ MainIdle

\* KeywordGenerator(config): __init__ seeds the process-wide generator
Construct ==
    /\ Len(generators) < MaxGenerators
    /\ \E cfg \in GeneratorConfigs : generators' = Append(generators, cfg)
    /\ rng' = SeedState(RandomSeed)
    /\ UNCHANGED <<tables, other_draws, PipelineVars, MainVars>>

\* generate_keywords() on one of the instances constructed so far
Generate ==
    /\ Len(tables) < MaxCalls
    /\ \E g \in 1..Len(generators) :
           LET result == GenerateKeywords(generators[g], rng)
           IN  /\ tables' = Append(tables, [generator |-> g,
                                            config |-> generators[g],
                                            table |-> result.table])
               /\ rng' = result.rng
    /\ UNCHANGED <<generators, other_draws, PipelineVars, MainVars>>

\* any other np.random call made in the process
OtherDraw ==
    /\ other_draws < MaxOtherDraws
    /\ rng' = NextRng(rng)
    /\ other_draws' = other_draws + 1
    /\ UNCHANGED <<generators, tables, PipelineVars, MainVars>>

NextGenerator ==
    \/ Construct
    \/ Generate
    \/ OtherDraw

SpecGenerator == InitGenerator /\ [][NextGenerator]_vars

\* C9: keyword synthesis is deterministic: for identical configuration, any
\* two invocations of generate_keywords (on freshly constructed generators
\* or repeated on the same instance, whatever other draws were made from the
\* process-wide generator in between) return identical tables, simulated
\* volume, competition and CPC values included.
C9_GenerateKeywordsDeterministic ==
    \A i, j \in 1..Len(tables) :
        tables[i].config = tables[j].config
            => tables[i].table = tables[j].table

\* the normalisation of C21: lower case, trimmed, runs of spaces collapsed
NormaliseKeyword(kw) == SelectSeq(Lower(kw), LAMBDA w : w # "")

\* C21: in every table returned by generate_keywords, no two records have
\* keywords that become equal after lowercasing, trimming and collapsing runs
\* of whitespace.
C21_KeywordUniqueWhenNormalised ==
    \A k \in 1..Len(tables) :
        \A i, j \in 1..Len(tables[k].table) :
            i # j => NormaliseKeyword(tables[k].table[i].keyword)
                         # NormaliseKeyword(tables[k].table[j].keyword)

\* what the code does guarantee: the keywords of a table are pairwise
\* different as strings, lower case and without spaces at either end
KeywordUniqueAsWritten ==
    \A k \in 1..Len(tables) :
        \A i, j \in 1..Len(tables[k].table) :
            LET kw == tables[k].table[i].keyword
            IN  /\ kw = Lower(Strip(kw))
                /\ i # j => kw # tables[k].table[j].keyword

-----------------------------------------------------------------------------
(* Specification of the simulated metrics: generate_keywords called on one  *)
(* generator from any state of the process-wide random generator.           *)

MaxEstimateCalls == 1

EstimateConfigs ==
    { Config(500, 300, Budgets(5000, 3000, 2000)),
      Config(1000, 300, Budgets(5000, 3000, 2000)) }

InitEstimate ==
    /\ rng \in RngStates
    /\ generators \in {<<cfg>> : cfg \in EstimateConfigs}
    /\ tables = <<>>
    /\ other_draws = 0
    /\ config = Config(500, 300, Budgets(5000, 3000, 2000))
    /\ raw = <<>>
    /\ pc = "start"
    /\ df = <<>>
    /\ columns = RawColumns
    /\ df_filtered = <<>>
    /\ passes = 0
    /\ error = "none"
    /\ match_type_strategy = InitialMatchTypeStrategy
    /\ search = NotCalled
    /\ pmax = NotCalled
    /\ shopping = NotCalled
    /\ MainIdle

\* generate_keywords() on the generator
GenerateEstimates ==
    /\ Len(tables) < MaxEstimateCalls
    /\ Generate

NextEstimate ==
    \/ GenerateEstimates
    \/ OtherDraw

SpecEstimate == InitEstimate /\ [][NextEstimate]_vars

\* C22: every record returned by generate_keywords has estimated_cpc_low <=
\* estimated_cpc_high, and get_cpc_estimate returns low <= high for every
\* competition level, keyword length and pair of draws.
C22_CpcLowAtMostHigh ==
    /\ \A k \in 1..Len(tables) :
           \A i \in 1..Len(tables[k].table) :
               tables[k].table[i].estimated_cpc_low
                   <= tables[k].table[i].estimated_cpc_high
    /\ \A competition \in {"Low", "Medium", "High", "Unknown"} :
           \A keyword_length \in 1..6 :
               \A s_low, s_high \in RngStates :
                   LET cpc == GetCpcEstimate(competition, keyword_length,
                                             s_low, s_high)
                   IN  cpc[1] <= cpc[2]

\* a returned table holds records of all three competition levels, one of
\* them longer than four words, each with low <= high
C22_Witness ==
    \E k \in 1..Len(tables) :
        LET t == tables[k].table
        IN  /\ \A c \in {"Low", "Medium", "High"} :
                   \E i \in 1..Len(t) :
                       /\ t[i].estimated_competition = c
                       /\ t[i].estimated_cpc_low <= t[i].estimated_cpc_high
            /\ \E i \in 1..Len(t) :
                   /\ WordCount(t[i].keyword) > 4
                   /\ t[i].estimated_cpc_low < t[i].estimated_cpc_high

-----------------------------------------------------------------------------
(* Specification of the two classifiers of DataProcessor:                   *)
(* _classify_search_intent and _cluster_themes called, in any order and     *)
(* repeatedly, on a one-row table whose keyword is any sequence of words of *)
(* a vocabulary holding every kind of marker the classifiers look for.      *)

\* words per keyword
MaxWords == 4

\* classifier calls on one table
MaxClassifierCalls == 3

\* a transactional word written with a capital, the brand, a competitor
\* marker that is also a commercial word, a service location, the two words
\* of an informational phrase, and two words no test looks for
Vocabulary ==
    {"Buy", "nutrimax", "vs", "mumbai", "how", "to", "protein", "whey"}

ClassifierKeywords == UNION {[1..n -> Vocabulary] : n \in 1..MaxWords}

InitClassify ==
    /\ config = Config(500, 300, Budgets(5000, 3000, 2000))
    /\ \E kw \in ClassifierKeywords :
           raw = <<Rec(kw, "seed_direct", 2500, "Medium", 56, 130)>>
    /\ pc = "classify"
    /\ df = raw
    /\ columns = RawColumns
    /\ df_filtered = <<>>
    /\ passes = 0
    /\ error = "none"
    /\ match_type_strategy = InitialMatchTypeStrategy
    /\ search = NotCalled
    /\ pmax = NotCalled
    /\ shopping = NotCalled
    /\ MainIdle
    /\ GeneratorIdle

\* df = self._classify_search_intent(df)
ClassifySearchIntentCall ==
    /\ pc = "classify"
    /\ passes < MaxClassifierCalls
    /\ df' = ClassifySearchIntent(config, df)
    /\ columns' = ClassifySearchIntentColumns(columns, Len(df))
    /\ passes' = passes + 1
    /\ UNCHANGED <<config, raw, pc, df_filtered, error, BuilderVars>>
    /\ UNCHANGED <<MainVars, GeneratorVars>>

\* df = self._cluster_themes(df)
ClusterThemesCall ==
    /\ pc = "classify"
    /\ passes < MaxClassifierCalls
    /\ df' = ClusterThemes(config, df)
    /\ columns' = ClusterThemesColumns(columns, Len(df))
    /\ passes' = passes + 1
    /\ UNCHANGED <<config, raw, pc, df_filtered, error, BuilderVars>>
    /\ UNCHANGED <<MainVars, GeneratorVars>>

NextClassify == ClassifySearchIntentCall \/ ClusterThemesCall

SpecClassify == InitClassify /\ [][NextClassify]_vars

Intents == {"transactional", "navigational", "commercial", "informational"}

Themes ==
    {"Brand Terms", "Competitor Terms", "Location-based Queries",
     "Long-Tail Informational", "Category Terms"}

\* C11: classification is total and idempotent: every classified keyword
\* carries exactly one search_intent of the four intents and exactly one
\* theme of the five themes, and applying either classifier again to the
\* classified table returns the same table (the same labels).
C11_ClassificationTotalAndIdempotent ==
    \A i \in 1..Len(df) :
        /\ "search_intent" \in DOMAIN df[i] =>
               /\ df[i].search_intent \in Intents
               /\ ClassifySearchIntent(config, df) = df
        /\ "theme" \in DOMAIN df[i] =>
               /\ df[i].theme \in Themes
               /\ ClusterThemes(config, df) = df

\* both classifiers have run and one of them has run again
C11_Witness ==
    /\ pc = "classify"
    /\ passes = MaxClassifierCalls
    /\ \A i \in 1..Len(df) : {"search_intent", "theme"} \subseteq DOMAIN df[i]
    /\ df[1].theme = "Location-based Queries"
    /\ df[1].search_intent = "informational"

\* the markers of a keyword the theme ladder tests
HasBrandMarker(kw) == Contains(Lower(kw), config.brand.name)

HasCompetitorMarker(kw) ==
    \/ Contains(Lower(kw), config.competitor.name)
    \/ Contains(Lower(kw), "alternative")
    \/ Contains(Lower(kw), "vs")

HasLocation(kw) ==
    \E j \in 1..Len(config.service_locations) :
        Contains(Lower(kw), config.service_locations[j])

IsLongTail(kw) ==
    \/ Len(kw) >= 4
    \/ ContainsPhrase(Lower(kw), "how", "to")
    \/ ContainsPhrase(Lower(kw), "what", "is")
    \/ Contains(Lower(kw), "guide")
    \/ Contains(Lower(kw), "tips")

\* C12: the theme is decided by the first test that matches, in the order
\* brand name -> Brand Terms, competitor name / 'alternative' / 'vs' ->
\* Competitor Terms, service location -> Location-based Queries, 4 or more
\* words or how-to / what-is / guide / tips -> Long-Tail Informational, else
\* Category Terms; a keyword with a service location and 4 or more words and
\* no brand or competitor marker is Location-based Queries.
C12_ThemeFirstMatchLadder ==
    \A i \in 1..Len(df) :
        "theme" \in DOMAIN df[i] =>
            LET kw == df[i].keyword
                theme == df[i].theme
            IN  /\ HasBrandMarker(kw) => theme = "Brand Terms"
                /\ (~HasBrandMarker(kw) /\ HasCompetitorMarker(kw))
                       => theme = "Competitor Terms"
                /\ (~HasBrandMarker(kw) /\ ~HasCompetitorMarker(kw)
                    /\ HasLocation(kw))
                       => theme = "Location-based Queries"
                /\ (~HasBrandMarker(kw) /\ ~HasCompetitorMarker(kw)
                    /\ ~HasLocation(kw) /\ IsLongTail(kw))
                       => theme = "Long-Tail Informational"
                /\ (~HasBrandMarker(kw) /\ ~HasCompetitorMarker(kw)
                    /\ ~HasLocation(kw) /\ ~IsLongTail(kw))
                       => theme = "Category Terms"
                /\ (HasLocation(kw) /\ Len(kw) >= 4 /\ ~HasBrandMarker(kw)
                    /\ ~HasCompetitorMarker(kw))
                       => theme # "Long-Tail Informational"

\* a classified keyword of 4 words with a service location and no brand or
\* competitor marker
C12_Witness ==
    /\ pc = "classify"
    /\ Len(df) = 1
    /\ "theme" \in DOMAIN df[1]
    /\ Len(df[1].keyword) >= 4
    /\ HasLocation(df[1].keyword)
    /\ ~HasBrandMarker(df[1].keyword)
    /\ ~HasCompetitorMarker(df[1].keyword)
    /\ df[1].theme = "Location-based Queries"

\* the patterns of the intent ladder
MatchesTransactional(kw) ==
    \/ HasWord(Lower(kw), {"buy", "purchase", "order", "price", "cost",
                           "shop", "store", "cheap", "discount", "deal",
                           "sale", "offer", "delivery", "shipping"})
    \/ HasPhrase(Lower(kw), "near", "me")

MatchesCommercial(kw) ==
    HasWord(Lower(kw), {"best", "top", "review", "compare", "vs",
                        "alternative", "option", "choice"})

MatchesInformational(kw) ==
    \/ HasWord(Lower(kw), {"why", "guide", "tips", "benefits", "ingredients"})
    \/ HasPhrase(Lower(kw), "how", "to")
    \/ HasPhrase(Lower(kw), "what", "is")
    \/ HasPhrase(Lower(kw), "side", "effects")

\* C13: the intent is decided by the first test that matches, in the order
\* transactional pattern -> transactional, brand name -> navigational,
\* commercial pattern -> commercial, informational pattern -> informational,
\* else 4 or more words -> informational, otherwise commercial; so a
\* transactional keyword holding the brand name is transactional; and
\* intent_score is 10 / 8 / 6 / 4 for transactional / commercial /
\* navigational / informational.
C13_IntentFirstMatchLadder ==
    \A i \in 1..Len(df) :
        "search_intent" \in DOMAIN df[i] =>
            LET kw == df[i].keyword
                intent == df[i].search_intent
                later == ~MatchesTransactional(kw) /\ ~HasBrandMarker(kw)
            IN  /\ MatchesTransactional(kw) => intent = "transactional"
                /\ (~MatchesTransactional(kw) /\ HasBrandMarker(kw))
                       => intent = "navigational"
                /\ (later /\ MatchesCommercial(kw)) => intent = "commercial"
                /\ (later /\ ~MatchesCommercial(kw)
                    /\ MatchesInformational(kw))
                       => intent = "informational"
                /\ (later /\ ~MatchesCommercial(kw)
                    /\ ~MatchesInformational(kw))
                       => intent = IF Len(kw) >= 4 THEN "informational"
                                   ELSE "commercial"
                /\ df[i].intent_score =
                       CASE intent = "transactional" -> 100
                         [] intent = "commercial" -> 80
                         [] intent = "navigational" -> 60
                         [] intent = "informational" -> 40

\* a classified keyword that matches a transactional pattern and holds the
\* brand name
C13_Witness ==
    /\ pc = "classify"
    /\ Len(df) = 1
    /\ "search_intent" \in DOMAIN df[1]
    /\ MatchesTransactional(df[1].keyword)
    /\ HasBrandMarker(df[1].keyword)
    /\ df[1].search_intent = "transactional"
    /\ df[1].intent_score = 100

-----------------------------------------------------------------------------
(* Specification of the volume score: process_keywords run as far as        *)
(* _add_performance_scores on tables whose estimated_volume values lie on   *)
(* and around every threshold of _calculate_volume_score.                   *)

\* rows of the table
MaxVolumeRows == 2

\* every threshold, the value just below it, and values inside each bucket
VolumeGrid ==
    {1, 499, 500, 501, 600, 999, 1000, 1999, 2000, 4999, 5000, 9999, 10000,
     10001, 50000}

VolumeTables ==
    UNION {[1..n -> {Rec(<<"whey", "protein">>, "seed_direct", v, "Medium",
                         56, 130) : v \in VolumeGrid}] :
              n \in 1..MaxVolumeRows}

InitVolume ==
    /\ config = Config(1, 300, Budgets(5000, 3000, 2000))
    /\ raw \in VolumeTables
    /\ pc = "start"
    /\ df = raw
    /\ columns = RawColumns
    /\ df_filtered = <<>>
    /\ passes = 0
    /\ error = "none"
    /\ match_type_strategy = InitialMatchTypeStrategy
    /\ search = NotCalled
    /\ pmax = NotCalled
    /\ shopping = NotCalled
    /\ MainIdle
    /\ GeneratorIdle

NextVolume == ApplyFiltersStep \/ AddPerformanceScoresStep

SpecVolume == InitVolume /\ [][NextVolume]_vars

\* the bucket table: 1, 3, 5, 7, 9, 10 (tenths) on (<500), [500,1000),
\* [1000,2000), [2000,5000), [5000,10000), [10000, inf)
VolumeBucket(v) ==
    CASE v < 500 -> 10
      [] 500 <= v /\ v < 1000 -> 30
      [] 1000 <= v /\ v < 2000 -> 50
      [] 2000 <= v /\ v < 5000 -> 70
      [] 5000 <= v /\ v < 10000 -> 90
      [] 10000 <= v -> 100

\* C14: volume_score is a monotone non-decreasing step function of
\* estimated_volume with values 1, 3, 5, 7, 9, 10 on (<500), [500,1000),
\* [1000,2000), [2000,5000), [5000,10000), [10000, inf); each threshold
\* belongs to the higher bucket (volume 500 and volume 600 both give 3.0).
C14_VolumeScoreStepFunction ==
    pc = "scored" =>
        /\ \A i \in 1..Len(df) :
               /\ df[i].volume_score = VolumeBucket(df[i].estimated_volume)
               /\ df[i].estimated_volume \in {500, 600}
                      => df[i].volume_score = 30
        /\ \A i, j \in 1..Len(df) :
               df[i].estimated_volume <= df[j].estimated_volume
                   => df[i].volume_score <= df[j].volume_score

\* a scored table holding a threshold and the value just below it
C14_Witness ==
    /\ pc = "scored"
    /\ \E i, j \in 1..Len(df) :
           /\ df[i].estimated_volume = 499 /\ df[i].volume_score = 10
           /\ df[j].estimated_volume = 500 /\ df[j].volume_score = 30

-----------------------------------------------------------------------------
(* Specification of the suggested CPC range: build_search_campaigns called  *)
(* on the scored table of one keyword, for every theme, base CPC ranges on  *)
(* both sides of 0.25 and of max_cpc, and small and large max_cpc values.   *)
(* CPC values are even numbers of hundredths, so no product with a theme    *)
(* multiplier lies halfway between two hundredths.                          *)

\* rows of the raw table
MaxCpcRows == 1

\* one keyword per theme
CpcKeywords ==
    { <<"nutrimax", "protein">>, <<"whey", "protein">>,
      <<"rivalfit", "alternative">>, <<"protein", "mumbai">>,
      <<"how", "to", "use", "whey", "protein">> }

\* estimated_cpc_low and estimated_cpc_high, in hundredths
CpcGrid == {10, 20, 26, 50, 96, 190, 250}

\* max_cpc, in hundredths: any positive number passes validate_config
MaxCpcGrid == {20, 30, 100, 200, 300}

CpcRecords ==
    {Rec(kw, "seed_direct", 2500, "Medium", lo, hi) :
        kw \in CpcKeywords,
        lo \in CpcGrid,
        hi \in CpcGrid}

CpcTables ==
    UNION {{t \in [1..n -> CpcRecords] :
               \A i \in 1..n : t[i].estimated_cpc_low <= t[i].estimated_cpc_high} :
              n \in 1..MaxCpcRows}

InitCpc ==
    /\ \E c \in MaxCpcGrid : config = Config(500, c, Budgets(5000, 3000, 2000))
    /\ raw \in CpcTables
    /\ pc = "done"
    /\ df = ProcessKeywords(config, raw)
    /\ columns = ProcessKeywordsColumns(Len(df))
    /\ df_filtered = ApplyFilters(config, raw)
    /\ passes = 0
    /\ error = "none"
    /\ match_type_strategy = InitialMatchTypeStrategy
    /\ search = NotCalled
    /\ pmax = NotCalled
    /\ shopping = NotCalled
    /\ MainIdle
    /\ GeneratorIdle

NextCpc == BuildSearch

SpecCpc == InitCpc /\ [][NextCpc]_vars

\* C15: for every search ad-group row and every valid configuration, both
\* suggested_cpc_low and suggested_cpc_high lie within [0.25, max_cpc].
C15_SuggestedCpcWithinBounds ==
    search.called =>
        \A k \in 1..Len(search.rows) :
            /\ 25 <= search.rows[k].suggested_cpc_low
            /\ search.rows[k].suggested_cpc_low
                   <= config.campaign_constraints.max_cpc
            /\ 25 <= search.rows[k].suggested_cpc_high
            /\ search.rows[k].suggested_cpc_high
                   <= config.campaign_constraints.max_cpc

\* C16: for every search ad-group row, suggested_cpc_high is at least
\* suggested_cpc_low + 0.1, whatever the base CPC range, the theme
\* multiplier and max_cpc are.
C16_SuggestedHighAtLeastLowPlusTenth ==
    search.called =>
        \A k \in 1..Len(search.rows) :
            search.rows[k].suggested_cpc_high
                >= search.rows[k].suggested_cpc_low + 10

\* a row whose low bid was clamped to max_cpc, so that only the final max
\* keeps the high bid a tenth above it
C16_Witness ==
    /\ search.called
    /\ \E k \in 1..Len(search.rows) :
           /\ search.rows[k].suggested_cpc_low
                  = config.campaign_constraints.max_cpc
           /\ search.rows[k].suggested_cpc_high
                  = search.rows[k].suggested_cpc_low + 10

-----------------------------------------------------------------------------
(* Specification of the match types: build_search_campaigns called, once    *)
(* and then again, on one CampaignBuilder with the scored table of keywords *)
(* that pair themes with transactional, informational and other intents.    *)

\* further build_search_campaigns calls on the same builder
MaxBuilds == 2

MatchTypeRecords ==
    { Rec(<<"buy", "rivalfit", "alternative">>, "competitor_variant", 2500,
          "Medium", 56, 130),
      Rec(<<"rivalfit", "benefits">>, "competitor_variant", 6000, "Low",
          26, 70),
      Rec(<<"protein", "mumbai">>, "location_variant", 6000, "Low", 26, 70),
      Rec(<<"how", "to", "use", "protein", "mumbai">>, "location_variant",
          800, "Medium", 50, 126),
      Rec(<<"buy", "protein", "mumbai">>, "location_variant", 1200, "High",
          80, 180),
      Rec(<<"buy", "nutrimax", "protein">>, "brand_variant", 800, "Low",
          26, 70),
      Rec(<<"buy", "whey", "protein">>, "commercial_variant", 6000, "High",
          80, 200),
      Rec(<<"buy", "whey", "protein", "for", "women">>, "commercial_variant",
          1200, "Medium", 56, 130),
      Rec(<<"whey", "protein", "powder">>, "seed_direct", 2500, "Medium",
          56, 130) }

MatchTypeTables == UNION {[1..n -> MatchTypeRecords] : n \in 0..MaxRows}

InitMatchTypes ==
    /\ config = Config(500, 300, Budgets(4000, 3000, 2000))
    /\ raw \in MatchTypeTables
    /\ pc = "done"
    /\ df = ProcessKeywords(config, raw)
    /\ columns = ProcessKeywordsColumns(Len(df))
    /\ df_filtered = ApplyFilters(config, raw)
    /\ passes = 0
    /\ error = "none"
    /\ match_type_strategy = InitialMatchTypeStrategy
    /\ search = NotCalled
    /\ pmax = NotCalled
    /\ shopping = NotCalled
    /\ MainIdle
    /\ GeneratorIdle

\* campaign_builder.build_search_campaigns(processed_keywords) called again
\* on the same builder: it starts from the table the earlier calls left
BuildSearchAgain ==
    /\ pc = "done"
    /\ search.called
    /\ passes < MaxBuilds
    /\ \E outcome \in BuildSearchCampaigns(config, match_type_strategy, df) :
           search' = Called(outcome)
    /\ match_type_strategy' =
           StrategyAfterRows(match_type_strategy,
                             SearchVisitOrder(df, ThemeOrder))
    /\ passes' = passes + 1
    /\ UNCHANGED <<config, raw, pc, df, columns, df_filtered, error, pmax,
                   shopping>>
    /\ UNCHANGED <<MainVars, GeneratorVars>>

NextMatchTypes == BuildSearch \/ BuildSearchAgain

SpecMatchTypes == InitMatchTypes /\ [][NextMatchTypes]_vars

\* C17: for every theme, a keyword with transactional search intent gets a
\* match_types string whose first entry is Exact.
C17_TransactionalStartsWithExact ==
    search.called =>
        \A k \in 1..Len(search.rows) :
            search.rows[k].search_intent = "transactional"
                => Head(search.rows[k].match_types) = "Exact"

\* C18: the theme -> match-type table of a CampaignBuilder is never
\* modified (after any sequence of build_search_campaigns calls it equals
\* its initial value), the match_types emitted for a keyword are the ones
\* its (theme, search_intent) pair gets from the initial table whatever
\* keywords were processed earlier, and a second build_search_campaigns call
\* on the same builder with the same scored table returns the same output.
C18_MatchTypeTableNeverModified ==
    /\ [](/\ match_type_strategy = InitialMatchTypeStrategy
          /\ search.called =>
                 \A k \in 1..Len(search.rows) :
                     search.rows[k].match_types =
                         GetMatchTypes(InitialMatchTypeStrategy,
                                       search.rows[k].ad_group,
                                       search.rows[k].search_intent))
    /\ [][BuildSearchAgain => search' = search]_vars

-----------------------------------------------------------------------------
(* Specification of the per-ad-group limit: build_search_campaigns called   *)
(* on scored tables holding up to one keyword more than the limit in one    *)
(* theme, in every rotation of the ascending score order, with or without a *)
(* keyword of a second theme.  The records of the large theme have pairwise *)
(* different composite scores, so sort_values has one possible result.      *)

\* keywords of the large theme
MaxTopRows == 26

\* estimated_volume, estimated_competition and estimated_cpc_high of the
\* records, in ascending order of the composite score they lead to
TopRecordParams ==
    << <<800, "High", 260>>, <<800, "High", 180>>, <<1200, "High", 260>>,
       <<800, "Medium", 260>>, <<800, "High", 120>>, <<1200, "High", 180>>,
       <<800, "Medium", 180>>, <<1200, "Medium", 260>>, <<800, "High", 80>>,
       <<1200, "High", 120>>, <<800, "Medium", 120>>,
       <<1200, "Medium", 180>>, <<800, "High", 40>>, <<1200, "High", 80>>,
       <<12000, "High", 260>>, <<800, "Medium", 80>>,
       <<1200, "Medium", 120>>, <<800, "Unknown", 40>>,
       <<1200, "High", 40>>, <<12000, "High", 180>>, <<800, "Medium", 40>>,
       <<1200, "Medium", 80>>, <<12000, "Medium", 260>>, <<800, "Low", 80>>,
       <<1200, "Unknown", 40>>, <<12000, "High", 120>>, <<2500, "High", 40>>,
       <<1200, "Medium", 40>> >>

TopRecord(j) ==
    Rec(<<"whey", "protein">>, "seed_direct", TopRecordParams[j][1],
        TopRecordParams[j][2], 20, TopRecordParams[j][3])

\* n records of the large theme starting at the r-th lowest score, after b
\* brand keywords
TopTable(n, r, b) ==
    [i \in 1..b |-> Rec(<<"nutrimax", "protein">>, "brand_variant", 2500,
                        "Low", 26, 70)]
    \o [i \in 1..n |-> TopRecord(((i - 1 + r) % n) + 1)]

TopTables ==
    {TopTable(n, r, b) : n \in 1..MaxTopRows, r \in 0..(MaxTopRows - 1),
                         b \in 0..1}

InitTop ==
    /\ config = Config(500, 300, Budgets(4000, 3000, 2000))
    /\ raw \in TopTables
    /\ pc = "done"
    /\ df = ProcessKeywords(config, raw)
    /\ columns = ProcessKeywordsColumns(Len(df))
    /\ df_filtered = ApplyFilters(config, raw)
    /\ passes = 0
    /\ error = "none"
    /\ match_type_strategy = InitialMatchTypeStrategy
    /\ search = NotCalled
    /\ pmax = NotCalled
    /\ shopping = NotCalled
    /\ MainIdle
    /\ GeneratorIdle

NextTop == BuildSearch

SpecTop == InitTop /\ [][NextTop]_vars

\* what identifies a keyword row in the scored table and in the output
RowKey(r, theme) ==
    <<theme, r.keyword, r.estimated_volume, r.composite_score, r.source>>

\* number of scored rows / of output rows with the given key
CountScored(key) ==
    Cardinality({i \in 1..Len(df) : RowKey(df[i], df[i].theme) = key})

CountRetained(key) ==
    Cardinality({k \in 1..Len(search.rows) :
                    RowKey(search.rows[k], search.rows[k].ad_group) = key})

\* C19: build_search_campaigns emits, for each theme, at most 25 rows, and
\* they are the top-scoring ones: no keyword of the theme that is left out
\* has a composite_score strictly greater than a retained keyword of the
\* theme; a theme with 25 or fewer keywords has all of them retained, each
\* exactly once.
C19_TopKeywordsPerTheme ==
    search.called =>
        \A theme \in Themes :
            LET in_theme == {i \in 1..Len(df) : df[i].theme = theme}
                retained == {k \in 1..Len(search.rows) :
                                search.rows[k].ad_group = theme}
            IN  /\ Cardinality(retained) <= 25
                /\ \A k \in retained :
                       CountRetained(RowKey(search.rows[k], theme))
                           <= CountScored(RowKey(search.rows[k], theme))
                /\ \A i \in in_theme :
                       CountRetained(RowKey(df[i], theme)) = 0 =>
                           \A k \in retained :
                               df[i].composite_score
                                   <= search.rows[k].composite_score
                /\ Cardinality(in_theme) <= 25 =>
                       \A i \in in_theme :
                           CountRetained(RowKey(df[i], theme)) = 1

\* a theme of 26 keywords of which 25 are retained, the one left out being
\* among the first 25 rows of the scored table
C19_Witness ==
    /\ search.called
    /\ Cardinality({i \in 1..Len(df) : df[i].theme = "Category Terms"}) = 26
    /\ Cardinality({k \in 1..Len(search.rows) :
                       search.rows[k].ad_group = "Category Terms"}) = 25
    /\ \E i \in 1..25 :
           /\ df[i].theme = "Category Terms"
           /\ CountRetained(RowKey(df[i], "Category Terms")) = 0

-----------------------------------------------------------------------------
(* Properties of build_shopping_campaigns on every scored table, checked    *)
(* under SpecBudget                                                         *)

\* some keyword of the scored table holds one of the category's terms
CategoryHasMatch(category) ==
    \E i \in 1..Len(df) :
        \E term \in category.keywords : Contains(Lower(df[i].keyword), term)

PresentCategories ==
    {k \in 1..Len(ProductCategories) : CategoryHasMatch(ProductCategories[k])}

\* C20: for every scored keyword table, build_shopping_campaigns returns
\* without an error one row for exactly those of the 4 product categories
\* that have a matching keyword (a category without a match is skipped), and
\* each present category's monthly_budget is its weight divided by the sum
\* of the weights of the present categories times shopping_ads (to the whole
\* unit the budget is rounded to).
C20_ShoppingRowsForMatchedCategories ==
    shopping.called =>
        LET total_weight ==
                SumOver(PresentCategories,
                        [k \in PresentCategories |->
                            ProductCategories[k].budget_weight])
        IN  /\ shopping.error = "none"
            /\ Len(shopping.rows) = Cardinality(PresentCategories)
            /\ \A k \in PresentCategories :
                   \E j \in 1..Len(shopping.rows) :
                       /\ shopping.rows[j].product_category
                              = ProductCategories[k].name
                       /\ 2 * Abs(total_weight * shopping.rows[j].monthly_budget
                                  - ProductCategories[k].budget_weight
                                        * config.budgets.shopping_ads)
                              <= total_weight


\* the scored records named in the target_keywords of a pmax row
NamedRecords(row) ==
    SelectSeq(df, LAMBDA r : r.keyword \in Range(row.target_keywords))

\* avg_cpc of a pmax row as the fraction CpcSum / CpcCount, in hundredths
CpcSum(row) ==
    LET named == NamedRecords(row)
    IN  IF named = <<>> THEN 100
        ELSE SumSeq([i \in 1..Len(named) |-> named[i].estimated_cpc_high])

CpcCount(row) ==
    IF NamedRecords(row) = <<>> THEN 1 ELSE Len(NamedRecords(row))

TotalVolume(row) ==
    LET named == NamedRecords(row)
    IN  IF named = <<>> THEN 10000
        ELSE SumSeq([i \in 1..Len(named) |-> named[i].estimated_volume])

\* monthly_budget / avg_cpc is at most total_volume * 1.5 * 0.02
BudgetBinds(row) ==
    100 * row.monthly_budget * CpcCount(row)
        <= 3 * TotalVolume(row) * CpcSum(row)

\* expected_clicks is min(monthly_budget / avg_cpc, total_volume * 1.5 * 0.02)
\* rounded to a whole number: it is within half a click of the smaller term
ClicksAreRoundedMinimum(row) ==
    IF BudgetBinds(row)
    THEN 2 * Abs(row.expected_clicks * CpcSum(row)
                     - row.monthly_budget * CpcCount(row)) <= CpcSum(row)
    ELSE 2 * Abs(row.expected_clicks * 100 - 3 * TotalVolume(row)) <= 100

\* C27: for every PMax theme, expected clicks are min(monthly_budget /
\* avg_cpc, total_volume * 1.5 * 0.02) rounded to a whole number, avg_cpc and
\* total_volume taken over the scored keywords named in target_keywords (1.0
\* and 10000 when none is), and never exceed monthly_budget / avg_cpc.
C27_PmaxClicksNeverExceedBudgetOverCpc ==
    \A k \in 1..Len(pmax.rows) :
        /\ ClicksAreRoundedMinimum(pmax.rows[k])
        /\ pmax.rows[k].expected_clicks * CpcSum(pmax.rows[k])
               <= pmax.rows[k].monthly_budget * CpcCount(pmax.rows[k])

\* C27 as amended: expected clicks are the rounded minimum, and exceed
\* monthly_budget / avg_cpc by at most the half click of the rounding.
C27_PmaxClicksWithinHalfOfBudgetOverCpc ==
    \A k \in 1..Len(pmax.rows) :
        /\ ClicksAreRoundedMinimum(pmax.rows[k])
        /\ 2 * pmax.rows[k].expected_clicks * CpcSum(pmax.rows[k])
               <= 2 * pmax.rows[k].monthly_budget * CpcCount(pmax.rows[k])
                      + CpcSum(pmax.rows[k])

\* a theme whose budget term is the smaller one and is rounded up, and a
\* theme of fallback keywords, none of them in the scored table
C27_Witness ==
    /\ pmax.called
    /\ \E k \in 1..Len(pmax.rows) :
           /\ NamedRecords(pmax.rows[k]) # <<>>
           /\ BudgetBinds(pmax.rows[k])
           /\ pmax.rows[k].expected_clicks * CpcSum(pmax.rows[k])
                  > pmax.rows[k].monthly_budget * CpcCount(pmax.rows[k])
    /\ \E k \in 1..Len(pmax.rows) :
           /\ NamedRecords(pmax.rows[k]) = <<>>
           /\ pmax.rows[k].expected_clicks >= 1

\* the competition adjustment of the claim, in tenths
CompetitionAdjustment(competition) ==
    IF competition = "Low" THEN 9
    ELSE IF competition = "High" THEN 11
    ELSE 10

\* the label is a most frequent estimated_competition among the scored
\* records that match the category of the shopping row
IsModalCompetition(row, label) ==
    LET category == CHOOSE c \in Range(ProductCategories) :
                        c.name = row.product_category
        matching == {i \in 1..Len(df) :
                        \E term \in category.keywords :
                            Contains(df[i].keyword, term)}
        Count(c) == Cardinality({i \in matching :
                                    df[i].estimated_competition = c})
    IN  /\ Count(label) >= 1
        /\ \A i \in matching : Count(df[i].estimated_competition) <= Count(label)

\* C28: for every shopping category row, target_cpc_formula (hundredths) is
\* round(target_cpa * target_conversion_rate, 2), the same for all
\* categories, and suggested_cpc is round(target_cpc * margin_factor *
\* adjustment, 2) with adjustment 0.9, 1.0, 1.1 for a modal competition of
\* Low, Medium, High and 1.0 for any other value.
C28_ShoppingCpcFormula ==
    \A j \in 1..Len(shopping.rows) :
        LET row == shopping.rows[j]
            \* target_cpa in units, the rate in thousandths
            product == config.campaign_constraints.target_cpa
                           * config.campaign_constraints.target_conversion_rate
            exact == row.target_cpc_formula * row.margin_factor
                         * CompetitionAdjustment(row.competition_level)
        IN  /\ 2 * Abs(10 * row.target_cpc_formula - product) <= 10
            /\ row.target_cpc_formula = shopping.rows[1].target_cpc_formula
            /\ IsModalCompetition(row, row.competition_level)
            /\ 2 * Abs(100 * row.suggested_cpc - exact) <= 100

\* shopping rows of High and of unknown modal competition, at the target
\* CPC of 10.00
C28_Witness ==
    /\ shopping.called
    /\ \A c \in {"High", "Unknown"} :
           \E j \in 1..Len(shopping.rows) :
               /\ shopping.rows[j].competition_level = c
               /\ shopping.rows[j].target_cpc_formula = 1000

-----------------------------------------------------------------------------
(* Specification of _apply_filters alone, on tables whose records stand on  *)
(* either side of each of its three tests.                                  *)

MaxFilterRows == 2

\* records at and next to the volume and CPC limits of the two
\* configurations, and one keyword of each irrelevance class
FilterPool ==
    { Rec(<<"nutrimax", "protein">>, "brand_variant", 500, "Low", 26, 300),
      Rec(<<"whey", "protein">>, "seed_direct", 499, "Medium", 56, 130),
      Rec(<<"vegan", "protein">>, "seed_direct", 1000, "High", 80, 200),
      Rec(<<"protein", "powder">>, "seed_direct", 2500, "High", 80, 302),
      Rec(<<"free", "protein", "shake">>, "longtail_variant", 4000, "Low",
          30, 80),
      Rec(<<"protein", "jobs">>, "longtail_variant", 4000, "Low", 30, 80),
      Rec(<<"nutrition", "training">>, "longtail_variant", 4000, "Low", 30,
          80),
      Rec(<<"best", "adult", "protein">>, "commercial_variant", 4000, "Low",
          30, 80),
      Rec(<<"protein", "scam">>, "longtail_variant", 4000, "Low", 30, 80) }

FilterTables == UNION {[1..n -> FilterPool] : n \in 0..MaxFilterRows}

InitFilter ==
    /\ config \in {Config(500, 300, Budgets(5000, 3000, 2000)),
                   Config(1000, 200, Budgets(5000, 3000, 2000))}
    /\ raw \in FilterTables
    /\ pc = "start"
    /\ df = raw
    /\ columns = RawColumns
    /\ df_filtered = <<>>
    /\ passes = 0
    /\ error = "none"
    /\ match_type_strategy = InitialMatchTypeStrategy
    /\ search = NotCalled
    /\ pmax = NotCalled
    /\ shopping = NotCalled
    /\ MainIdle
    /\ GeneratorIdle

NextFilter == ApplyFiltersStep \/ Refilter

SpecFilter == InitFilter /\ [][NextFilter]_vars

\* the five irrelevance classes, one by one
IrrelevanceClasses ==
    << {"free", "download", "torrent", "crack", "pirate"},
       {"jobs", "career", "hiring", "salary", "interview"},
       {"course", "training", "education", "class", "school"},
       {"porn", "sex", "adult", "xxx"},
       {"illegal", "fake", "scam", "fraud"} >>

\* the record passes the three tests of the claim
PassesAllFilters(r) ==
    /\ r.estimated_volume >= config.campaign_constraints.min_search_volume
    /\ r.estimated_cpc_high <= config.campaign_constraints.max_cpc
    /\ \A c \in 1..Len(IrrelevanceClasses) :
           \A i \in 1..Len(r.keyword) :
               r.keyword[i] \notin IrrelevanceClasses[c]

\* C23: the output of _apply_filters is exactly the input records with
\* estimated_volume >= min_search_volume, estimated_cpc_high <= max_cpc and
\* a keyword matching none of the five irrelevance classes, in their original
\* relative order: none dropped or kept wrongly, none added or altered.
C23_ApplyFiltersKeepsExactlyThePassing ==
    pc = "filtered" =>
        LET passing == {i \in 1..Len(raw) : PassesAllFilters(raw[i])}
            Nth(k) == CHOOSE i \in passing :
                          Cardinality({j \in passing : j < i}) = k - 1
        IN  /\ Len(df_filtered) = Cardinality(passing)
            /\ \A k \in 1..Len(df_filtered) : df_filtered[k] = raw[Nth(k)]

\* _apply_filters returned a record standing on both limits, having removed
\* before it a record whose irrelevant word is not its first
C23_Witness ==
    /\ pc = "filtered"
    /\ Len(raw) = 2
    /\ Len(df_filtered) = 1
    /\ Head(raw[1].keyword) \notin IrrelevantTerms
    /\ raw[1].estimated_volume
           >= config.campaign_constraints.min_search_volume
    /\ raw[1].estimated_cpc_high <= config.campaign_constraints.max_cpc
    /\ df_filtered[1] = raw[2]
    /\ raw[2].estimated_volume
           = config.campaign_constraints.min_search_volume
    /\ raw[2].estimated_cpc_high = config.campaign_constraints.max_cpc

-----------------------------------------------------------------------------
(* Specification of the priority classification: process_keywords stage by  *)
(* stage on records whose composite scores stand on and next to 8.0 and 6.0. *)

MaxPriorityRows == 3

\* composite scores 8.00, 6.00, 7.75, 5.75 and 9.55
PriorityPool ==
    { Rec(<<"cheap", "whey">>, "commercial_variant", 12000, "Low", 60, 126),
      Rec(<<"cheap", "whey">>, "commercial_variant", 12000, "High", 120, 260),
      Rec(<<"cheap", "whey">>, "commercial_variant", 6000, "Low", 60, 126),
      Rec(<<"cheap", "whey">>, "commercial_variant", 6000, "High", 120, 260),
      Rec(<<"buy", "nutrimax", "protein">>, "brand_variant", 6000, "Low", 26,
          50) }

InitPriority ==
    /\ config = Config(500, 300, Budgets(5000, 3000, 2000))
    /\ raw \in UNION {[1..n -> PriorityPool] : n \in 1..MaxPriorityRows}
    /\ pc = "start"
    /\ df = raw
    /\ columns = RawColumns
    /\ df_filtered = <<>>
    /\ passes = 0
    /\ error = "none"
    /\ match_type_strategy = InitialMatchTypeStrategy
    /\ search = NotCalled
    /\ pmax = NotCalled
    /\ shopping = NotCalled
    /\ MainIdle
    /\ GeneratorIdle

NextPriority ==
    \/ ApplyFiltersStep
    \/ AddPerformanceScoresStep
    \/ ClassifySearchIntentStep
    \/ ClusterThemesStep
    \/ CalculateFinalScoresStep

SpecPriority == InitPriority /\ [][NextPriority]_vars

\* the priority buckets from lowest to highest
PriorityLevel(priority) ==
    CASE priority = "Low" -> 1
      [] priority = "Medium" -> 2
      [] priority = "High" -> 3

\* C24: priority is High exactly when composite_score >= 8.0, Medium exactly
\* when 6.0 <= composite_score < 8.0 and Low otherwise; a record with a
\* better (smaller) performance_rank never has a lower priority than a
\* record with a worse rank.
C24_PriorityBucketsFollowComposite ==
    /\ \A score \in 0..1000 :
           ClassifyPriority(score)
               = IF score >= 800 THEN "High"
                 ELSE IF score >= 600 /\ score < 800 THEN "Medium"
                 ELSE "Low"
    /\ pc = "done" =>
        /\ \A i \in 1..Len(df) :
               /\ df[i].priority \in {"High", "Medium", "Low"}
               /\ df[i].priority = "High" <=> df[i].composite_score >= 800
               /\ df[i].priority = "Medium"
                      <=> (df[i].composite_score >= 600
                           /\ df[i].composite_score < 800)
               /\ df[i].priority = "Low" <=> df[i].composite_score < 600
        /\ \A i, j \in 1..Len(df) :
               df[i].performance_rank < df[j].performance_rank
                   => PriorityLevel(df[i].priority)
                          >= PriorityLevel(df[j].priority)

\* a scored table with a High record at 8.0, a Medium record at 6.0 and a
\* Low record, at three ranks
C24_Witness ==
    /\ pc = "done"
    /\ \E i, j, k \in 1..Len(df) :
           /\ df[i].composite_score = 800
           /\ df[i].priority = "High" /\ df[i].performance_rank = 1
           /\ df[j].composite_score = 600
           /\ df[j].priority = "Medium" /\ df[j].performance_rank = 2
           /\ df[k].priority = "Low" /\ df[k].performance_rank = 3

-----------------------------------------------------------------------------
(* Specification of the tables as objects.  A heap is the sequence of the   *)
(* frames allocated so far and a frame is known by its index; a stage is    *)
(* given the index of its argument and returns the heap it leaves and the   *)
(* index of the frame it returns.  df[mask], reset_index, df.copy() and     *)
(* pd.DataFrame(rows) allocate a frame; df[column] = values writes into the *)
(* frame the name is bound to.                                              *)

MaxFrameRows == 2

\* df[mask], df.reset_index(drop=True), pd.DataFrame(rows): a new frame
NewFrame(heap, content) ==
    [heap |-> Append(heap, content), id |-> Len(heap) + 1]

\* df.copy()
CopyFrame(heap, id) == NewFrame(heap, heap[id])

\* df[column] = values, for the columns that make the frame's content
Assign(heap, id, content) == [heap EXCEPT ![id] = content]

\* df = df.copy() followed by the column assignments of a scoring stage
CopyAndAssign(heap, id, content) ==
    LET copy == CopyFrame(heap, id)
    IN  [heap |-> Assign(copy.heap, copy.id, content), id |-> copy.id]

ProcessKeywordsInPlace(cfg, heap, id) ==
    LET filtered == NewFrame(heap, ApplyFilters(cfg, heap[id]))
    IN  [heap |-> Assign(filtered.heap, id, ProcessKeywords(cfg, heap[id])),
         id |-> id]

\* process_keywords on the frame id: _apply_filters returns a new frame, and
\* each of the four later stages copies its argument and writes its columns
\* into the copy
ProcessKeywordsOnHeap(cfg, heap, id) ==
    LET df_filtered_ == NewFrame(heap, ApplyFilters(cfg, heap[id]))
        df_scored ==
            CopyAndAssign(df_filtered_.heap, df_filtered_.id,
                AddPerformanceScores(cfg,
                                     df_filtered_.heap[df_filtered_.id]))
        df_intent ==
            CopyAndAssign(df_scored.heap, df_scored.id,
                ClassifySearchIntent(cfg, df_scored.heap[df_scored.id]))
        df_themed ==
            CopyAndAssign(df_intent.heap, df_intent.id,
                ClusterThemes(cfg, df_intent.heap[df_intent.id]))
    IN  CopyAndAssign(df_themed.heap, df_themed.id,
            CalculateFinalScores(df_themed.heap[df_themed.id]))

\* the end of a build_* method: the rows collected from the scored table
\* make a new frame, and the budget and projection columns are written
\* into that frame; an exception leaves the heap as it is
BuildOnHeap(heap, outcome) ==
    IF outcome.error # "none" THEN [heap |-> heap, id |-> 0]
    ELSE LET built == NewFrame(heap, outcome.rows)
         IN  [heap |-> Assign(built.heap, built.id, outcome.rows),
              id |-> built.id]

InitFrame ==
    /\ config \in Configs
    /\ raw \in UNION {[1..n -> RawPool] : n \in 0..MaxFrameRows}
    /\ pc = "start"
    /\ df = <<>>
    /\ columns = RawColumns
    /\ df_filtered = <<>>
    /\ passes = 0
    /\ error = "none"
    /\ match_type_strategy = InitialMatchTypeStrategy
    /\ search = NotCalled
    /\ pmax = NotCalled
    /\ shopping = NotCalled
    /\ MainIdle
    /\ GeneratorIdle

\* processed_keywords = processor.process_keywords(raw_keywords): raw is
\* the frame raw_keywords names, df the frame the call returns
ProcessKeywordsCall ==
    /\ pc = "start"
    /\ \E returned \in {ProcessKeywordsOnHeap(config, <<raw>>, 1)} :
           /\ raw' = returned.heap[1]
           /\ df_filtered' = returned.heap[2]
           /\ df' = returned.heap[returned.id]
           /\ columns' = ProcessKeywordsColumns(Len(returned.heap[2]))
    /\ pc' = "done"
    /\ UNCHANGED <<config, passes, error, BuilderVars>>
    /\ UNCHANGED <<MainVars, GeneratorVars>>

\* search_adgroups = campaign_builder.build_search_campaigns(
\* processed_keywords): df is the frame processed_keywords names
BuildSearchCall ==
    /\ pc = "done"
    /\ ~search.called
    /\ \E outcome \in BuildSearchCampaigns(config, match_type_strategy, df) :
           LET returned == BuildOnHeap(<<df>>, outcome)
           IN  /\ df' = returned.heap[1]
               /\ search' = Called(outcome)
    /\ match_type_strategy' =
           StrategyAfterRows(match_type_strategy,
                             SearchVisitOrder(df, ThemeOrder))
    /\ UNCHANGED <<config, raw, pc, columns, df_filtered, passes, error,
                   pmax, shopping>>
    /\ UNCHANGED <<MainVars, GeneratorVars>>

\* pmax_themes = campaign_builder.build_pmax_campaigns(processed_keywords)
BuildPmaxCall ==
    /\ pc = "done"
    /\ ~pmax.called
    /\ LET outcome == BuildPmaxCampaigns(config, columns, df)
           returned == BuildOnHeap(<<df>>, outcome)
       IN  /\ df' = returned.heap[1]
           /\ pmax' = Called(outcome)
    /\ UNCHANGED <<config, raw, pc, columns, df_filtered, passes, error,
                   match_type_strategy, search, shopping>>
    /\ UNCHANGED <<MainVars, GeneratorVars>>

\* shopping_bids = campaign_builder.build_shopping_campaigns(
\* processed_keywords)
BuildShoppingCall ==
    /\ pc = "done"
    /\ ~shopping.called
    /\ \E outcome \in BuildShoppingCampaigns(config, df) :
           LET returned == BuildOnHeap(<<df>>, outcome)
           IN  /\ df' = returned.heap[1]
               /\ shopping' = Called(outcome)
    /\ UNCHANGED <<config, raw, pc, columns, df_filtered, passes, error,
                   match_type_strategy, search, pmax>>
    /\ UNCHANGED <<MainVars, GeneratorVars>>

NextFrame ==
    \/ ProcessKeywordsCall
    \/ BuildSearchCall
    \/ BuildPmaxCall
    \/ BuildShoppingCall

SpecFrame == InitFrame /\ [][NextFrame]_vars

\* C29: each stage leaves its input table unchanged: process_keywords leaves
\* the raw table with the rows and columns it had, and each of
\* build_search_campaigns, build_pmax_campaigns and build_shopping_campaigns
\* leaves the scored table with the rows and columns it had, so the tables
\* that reach the exporter are the ones the producing stages returned.
C29_StagesLeaveTheirInputUnchanged ==
    [][/\ raw' = raw
       /\ pc = "done" => df' = df]_vars

\* the three builders have run on a scored table that process_keywords made
\* from a raw table it removed a record of; the raw records have none of the
\* columns of the scored ones
C29_Witness ==
    /\ pc = "done"
    /\ search.called /\ pmax.called /\ shopping.called
    /\ df # <<>>
    /\ Len(df) < Len(raw)
    /\ "composite_score" \in DOMAIN df[1]
    /\ \A i \in 1..Len(raw) : DOMAIN raw[i] = DOMAIN RawColumns

=============================================================================
